---- MODULE Spec2Model ----
(***************************************************************************)
(* A model of the streaming orchestration core of error-log-streamer:     *)
(* server/index.js (stream controller, provider resolution, broadcast),   *)
(* server/db/postgres.js (persistence gateway) and                        *)
(* server/services/geminiService.js (generation client).                  *)
(*                                                                         *)
(* Node.js runs one thread: every action below is one synchronous segment *)
(* of a handler or callback, from the event that starts it to the next    *)
(* await that leaves the event loop.  Promise continuations that need no  *)
(* I/O (microtasks) run inside the segment that queued them.              *)
(***************************************************************************)
EXTENDS Integers, Sequences, FiniteSets, Bags, TLC

(***************************************************************************)
(* Bounds of the model.                                                    *)
(***************************************************************************)
MaxPending == 2       \* operations suspended at an await at once: ticks,
                      \* status snapshots and the configure request
MaxTimers == 2        \* interval timers that can be armed at once
MaxInputLen == 3      \* characters of a variation-limit input

(***************************************************************************)
(* Program constants.                                                      *)
(***************************************************************************)
DEFAULT_INTERVAL == 5000
MIN_INTERVAL == 1000
MAX_INTERVAL == 10000
DEFAULT_VARIATION_LIMIT == 10
MIN_VARIATION_LIMIT == 1
MAX_VARIATION_LIMIT == 10
OPEN == 1
FALLBACK_GEMINI_MODEL == "gemini-2.5-flash-preview-05-20"
FALLBACK_GEMINI_API_URL == "https://generativelanguage.googleapis.com"
FALLBACK_OLLAMA_MODEL == "llama3.2:3b"
FALLBACK_OLLAMA_API_URL == "http://localhost:11434"
DEFAULT_TEMPLATE == "template0"

(***************************************************************************)
(* JavaScript values.  UNDEF stands for undefined/NaN where a number is   *)
(* expected (no negative number is among the inputs); the empty string is *)
(* the falsy string; a string whose characters matter (an app-config      *)
(* value) is a sequence of one-character strings, and Undefined is the    *)
(* absent one.                                                             *)
(***************************************************************************)
UNDEF == -1
Undefined == <<"undefined">>
Digits == <<"0", "1", "2", "3", "4", "5", "6", "7", "8", "9">>
IsDigit(c) == \E i \in 1..10 : Digits[i] = c
DigitOf(c) == (CHOOSE i \in 1..10 : Digits[i] = c) - 1
NaN == [nan |-> TRUE, val |-> 0]
Num(n) == [nan |-> FALSE, val |-> n]

RECURSIVE DigitsValue(_, _)
\* the value of the longest prefix of decimal digits of s, after acc
DigitsValue(s, acc) ==
  IF s = <<>> \/ ~IsDigit(Head(s)) THEN acc
  ELSE DigitsValue(Tail(s), 10 * acc + DigitOf(Head(s)))

RECURSIVE SkipSpace(_)
SkipSpace(s) == IF s # <<>> /\ Head(s) = " " THEN SkipSpace(Tail(s)) ELSE s

\* parseInt(raw, 10) of a string: leading blanks, an optional sign, then the
\* longest run of digits; NaN when that run is empty
ParseInt(raw) ==
  LET s == SkipSpace(raw)
      neg == s # <<>> /\ Head(s) = "-"
      body == IF s # <<>> /\ Head(s) \in {"-", "+"} THEN Tail(s) ELSE s
  IN IF body = <<>> \/ ~IsDigit(Head(body)) THEN NaN
     ELSE Num(IF neg THEN 0 - DigitsValue(body, 0) ELSE DigitsValue(body, 0))

Min(a, b) == IF a < b THEN a ELSE b
Max(a, b) == IF a > b THEN a ELSE b

\* String(n) for the integers the server stringifies (1..10)
ToStr(n) == IF n >= 10 THEN <<Digits[(n \div 10) + 1], Digits[(n % 10) + 1]>>
            ELSE <<Digits[n + 1]>>

clampVariationLimit(raw) ==
  LET parsed == ParseInt(raw)
  IN IF parsed.nan THEN DEFAULT_VARIATION_LIMIT
     ELSE Min(MAX_VARIATION_LIMIT, Max(MIN_VARIATION_LIMIT, parsed.val))

RECURSIVE SkipSpaceEnd(_)
SkipSpaceEnd(s) ==
  IF s # <<>> /\ s[Len(s)] = " " THEN SkipSpaceEnd(SubSeq(s, 1, Len(s) - 1)) ELSE s

AllDigits(s) == \A i \in 1..Len(s) : IsDigit(s[i])

\* Math.trunc(Number(raw)) of a string without letters other than those
\* that make it NaN: blanks are trimmed, the empty string is 0, and the
\* rest must be a decimal numeral as a whole (sign, digits, '.', digits)
TruncNumber(raw) ==
  LET s == SkipSpaceEnd(SkipSpace(raw))
      neg == s # <<>> /\ Head(s) = "-"
      body == IF s # <<>> /\ Head(s) \in {"-", "+"} THEN Tail(s) ELSE s
      dots == {i \in 1..Len(body) : body[i] = "."}
      p == IF dots = {} THEN Len(body) + 1
           ELSE CHOOSE i \in dots : \A j \in dots : i <= j
      int == SubSeq(body, 1, p - 1)
      frac == SubSeq(body, p + 1, Len(body))
  IN IF s = <<>> THEN Num(0)
     ELSE IF ~AllDigits(int) \/ ~AllDigits(frac) \/ Len(int) + Len(frac) = 0
     THEN NaN
     ELSE Num(IF neg THEN 0 - DigitsValue(int, 0) ELSE DigitsValue(int, 0))

\* pages/Settings.tsx lines 111-119: clampVariationLimit of the settings
\* page, for a string
SettingsClampVariationLimit(value) ==
  LET parsed == TruncNumber(value)
  IN IF parsed.nan THEN DEFAULT_VARIATION_LIMIT
     ELSE Min(MAX_VARIATION_LIMIT, Max(MIN_VARIATION_LIMIT, parsed.val))

(***************************************************************************)
(* Domains of the inputs.                                                  *)
(***************************************************************************)
\* the WebSocket connections
Clients == {"ws1"}
TimerIds == 1..MaxTimers
ProviderTypes == {"gemini", "ollama", "custom"}
StartIntervals == {UNDEF, 1000, 10000}
\* request bodies of POST /api/config: interval and template
ConfigBodies ==
  { [interval |-> UNDEF, template |-> "undefined"],
    [interval |-> 1000, template |-> "undefined"],
    [interval |-> 500, template |-> "template1"],
    [interval |-> 20000, template |-> "template1"] }
BackendOutcomes == {"object", "falsy", "invalid_json", "http_401"}

(***************************************************************************)
(* Records.                                                                *)
(***************************************************************************)
\* currentProviderInfo = null
NoInfo == [type |-> "", modelName |-> ""]
\* a provider entry that is not there
NoEntry == [present |-> FALSE, modelName |-> "", apiUrl |-> "", apiKey |-> ""]
Entry(m, u, k) == [present |-> TRUE, modelName |-> m, apiUrl |-> u, apiKey |-> k]
NoRow == [present |-> FALSE, modelName |-> "", apiUrl |-> "", apiKey |-> "",
          isActive |-> FALSE]
NoSettings == [activeProvider |-> "", providers |-> [t \in ProviderTypes |-> NoEntry]]
NoResolved == [type |-> "", modelName |-> "", apiUrl |-> "", apiKey |-> ""]
\* the request body field aiProvider, absent
NoAiPayload == [given |-> FALSE, activeProvider |-> "",
                providers |-> <<>>]
AiPayload(a, ps) == [given |-> TRUE, activeProvider |-> a, providers |-> ps]
\* the request body field appConfig, absent
NoAppPayload == [given |-> FALSE, ERROR_VARIATION_LIMIT |-> Undefined]
AppPayload(v) == [given |-> TRUE, ERROR_VARIATION_LIMIT |-> v]

\* the aiProvider and appConfig fields of the request bodies; providers is
\* the list of Object.entries(providers), in insertion order.  The second
\* aiProvider is an object without activeProvider, which
\* saveAIProviderSettings refuses (postgres.js lines 159-161)
AiPayloads == { NoAiPayload, AiPayload("", <<>>) }
AppPayloads == { NoAppPayload }

\* no POST /api/config request is being handled
NoRequest == [pc |-> "idle", ai |-> NoAiPayload, app |-> NoAppPayload,
              settings |-> NoSettings, ens |-> NoSettings]

VARIABLES
  config,                \* index.js: config {interval, template}
  currentProviderInfo,   \* index.js: cached provider summary
  currentVariationLimit, \* index.js
  streamInterval,        \* index.js: the timer handle, 0 = null
  isStreaming,           \* index.js
  connectedClients,      \* index.js: Set of sockets
  timers,                \* Node: period of each armed interval timer, 0 = not armed
  readyState,            \* ws: readyState of each socket, 0 = no such socket
  ticks,                 \* bag of generateAndBroadcast invocations suspended at an await
  statusJobs,            \* bag of ensureCurrentProviderInfo calls suspended at an await
  cfgReq,                \* the POST /api/config request suspended at an await
  providerRows,          \* table ai_provider_settings
  appConfig,             \* table app_config (the keys the core reads)
  env,                   \* process.env
  lastResolved,          \* history: what the last resolveActiveAIProviderConfig
                         \* call that returned, returned
  lastConfigured,        \* history: the provider summary of the last POST
                         \* /api/config that stored provider settings and
                         \* answered 200, NoInfo once the table changes again
  lastStatus,            \* history: isStreaming of the last status message
                         \* sent to each registered socket ("on"/"off"),
                         \* "none" before the first
  out,                   \* messages sent to sockets by the last segment
  ran                    \* the last segment: operation, outcome

vars == <<config, currentProviderInfo, currentVariationLimit, streamInterval,
          isStreaming, connectedClients, timers, readyState, ticks, statusJobs,
          cfgReq, providerRows, appConfig, env, lastResolved, lastConfigured,
          lastStatus, out, ran>>

(***************************************************************************)
(* db/postgres.js                                                          *)
(***************************************************************************)
\* ORDER BY provider_type
TypeOrder == <<"custom", "gemini", "ollama">>

RECURSIVE LastActive(_, _, _)
\* result.rows.forEach: every active row overwrites activeProvider
LastActive(rows, i, acc) ==
  IF i > Len(TypeOrder) THEN acc
  ELSE LastActive(rows, i + 1,
                  IF rows[TypeOrder[i]].present /\ rows[TypeOrder[i]].isActive
                  THEN TypeOrder[i] ELSE acc)

\* getAIProviderSettings without lines 141-143: no row counts as active
getAIProviderSettings_NoActive(rows) ==
  [activeProvider |-> "",
   providers |-> [t \in ProviderTypes |->
                    IF rows[t].present
                    THEN Entry(rows[t].modelName, rows[t].apiUrl, rows[t].apiKey)
                    ELSE NoEntry]]

\* postgres.js lines 124-155
getAIProviderSettings(rows) ==
  [activeProvider |-> LastActive(rows, 1, ""),
   providers |-> [t \in ProviderTypes |->
                    IF rows[t].present
                    THEN Entry(rows[t].modelName, rows[t].apiUrl, rows[t].apiKey)
                    ELSE NoEntry]]

\* idx_ai_provider_active (schema lines 38-39): a statement that would
\* leave a second row with is_active = TRUE fails
UniqueViolation(rows, providerType, isActive) ==
  isActive /\ \E t \in ProviderTypes \ {providerType} :
                rows[t].present /\ rows[t].isActive

RECURSIVE UpsertEntries(_, _, _, _)
\* the for loop of saveAIProviderSettings from entry i on: the rows after
\* the loop, or "rejected" at the first entry without a modelName or whose
\* INSERT fails
UpsertEntries(rows, entries, i, activeProvider) ==
  IF i > Len(entries) THEN [rejected |-> FALSE, rows |-> rows]
  ELSE LET providerType == entries[i][1]
           cfg == entries[i][2]
       IN IF ~cfg.present \/ cfg.modelName = ""
             \/ UniqueViolation(rows, providerType, providerType = activeProvider)
          THEN [rejected |-> TRUE, rows |-> rows]
          ELSE UpsertEntries(
                 [rows EXCEPT ![providerType] =
                    [present |-> TRUE, modelName |-> cfg.modelName,
                     apiUrl |-> cfg.apiUrl, apiKey |-> cfg.apiKey,
                     isActive |-> (providerType = activeProvider)]],
                 entries, i + 1, activeProvider)

\* saveAIProviderSettings without the UPDATE of line 173
saveAIProviderSettings_NoClear(rows, payload, dbOk) ==
  IF payload.activeProvider = "" \/ Len(payload.providers) = 0
  THEN [ok |-> FALSE, rows |-> rows]
  ELSE LET res == UpsertEntries(rows, payload.providers, 1, payload.activeProvider)
       IN IF res.rejected \/ ~dbOk
          THEN [ok |-> FALSE, rows |-> rows]
          ELSE [ok |-> TRUE, rows |-> res.rows]

\* saveAIProviderSettings up to COMMIT/ROLLBACK: the committed rows.
\* dbOk = FALSE: a statement of the transaction fails.
saveAIProviderSettings(rows, payload, dbOk) ==
  IF payload.activeProvider = "" \/ Len(payload.providers) = 0
  THEN [ok |-> FALSE, rows |-> rows]
  ELSE LET cleared == [t \in ProviderTypes |-> [rows[t] EXCEPT !.isActive = FALSE]]
           res == UpsertEntries(cleared, payload.providers, 1, payload.activeProvider)
       IN IF res.rejected \/ ~dbOk
          THEN [ok |-> FALSE, rows |-> rows]
          ELSE [ok |-> TRUE, rows |-> res.rows]

\* an insertErrorLog that swallows the error of a failed INSERT
insertErrorLog_Swallows(dbOk) == [threw |-> FALSE]

\* postgres.js lines 25-57: pool.query succeeds and the row is returned
\* (line 52), or it fails and the catch block logs the error and throws it
\* again (lines 53-56)
insertErrorLog(dbOk) == [threw |-> ~dbOk]

\* getAppConfig(keys): the stored values of the keys, Undefined when absent
getAppConfig(stored) == stored

\* upsertAppConfig(values): insert or update each given key
upsertAppConfig(stored, key, value) == [stored EXCEPT ![key] = value]

(***************************************************************************)
(* index.js: provider resolution                                           *)
(***************************************************************************)
Truthy(v) == v # Undefined /\ v # <<>>

\* the ACTIVE_PROVIDER of the app config taken whether or not a provider
\* entry of that name is stored
ProviderFromAppConfig_NoEntryCheck(aiSettings, appConfigValues) ==
  appConfigValues.ACTIVE_PROVIDER

\* lines 160-165 and 95-100: ACTIVE_PROVIDER of the app config, if it names
\* a stored provider
ProviderFromAppConfig(aiSettings, appConfigValues) ==
  LET a == appConfigValues.ACTIVE_PROVIDER
  IN IF a # "" /\ a \in ProviderTypes /\ aiSettings.providers[a].present
     THEN a ELSE ""

\* lines 197-220
ResolvedOf(providerType, providerConfig, e) ==
  [type |-> providerType,
   modelName |-> IF providerConfig.modelName # "" THEN providerConfig.modelName
                 ELSE IF providerType = "gemini" THEN FALLBACK_GEMINI_MODEL
                 ELSE IF providerType = "ollama" THEN FALLBACK_OLLAMA_MODEL
                 ELSE "",
   apiUrl |-> IF providerConfig.apiUrl # "" THEN providerConfig.apiUrl
              ELSE IF providerType = "gemini" THEN FALLBACK_GEMINI_API_URL
              ELSE IF providerType = "ollama" THEN FALLBACK_OLLAMA_API_URL
              ELSE "",
   apiKey |-> IF providerConfig.apiKey # "" THEN providerConfig.apiKey
              ELSE IF providerType = "gemini" THEN e.GEMINI_API_KEY
              ELSE IF providerType = "ollama" THEN e.OLLAMA_API_KEY
              ELSE ""]

\* the checks of a chosen provider without the credential check of
\* lines 226-228
ResolveError_NoKeyCheck(aiSettings, providerType, e) ==
  LET providerConfig == aiSettings.providers[providerType]
      resolved == ResolvedOf(providerType, providerConfig, e)
  IN IF ~providerConfig.present THEN "Configuration missing for provider"
     ELSE IF resolved.modelName = "" THEN "Model name is required for provider"
     ELSE IF resolved.apiUrl = "" THEN "API URL is required for provider"
     ELSE ""

\* lines 192-232: the error thrown for a chosen provider, "" when none
ResolveError(aiSettings, providerType, e) ==
  LET providerConfig == aiSettings.providers[providerType]
      resolved == ResolvedOf(providerType, providerConfig, e)
  IN IF ~providerConfig.present THEN "Configuration missing for provider"
     ELSE IF resolved.modelName = "" THEN "Model name is required for provider"
     ELSE IF providerType = "gemini" /\ resolved.apiKey = ""
          THEN "Gemini API key is not configured. Please update the provider settings."
     ELSE IF resolved.apiUrl = "" THEN "API URL is required for provider"
     ELSE ""

\* a fallback with the endpoint of the other backend
Fallback_OllamaEndpoint(e) ==
  [type |-> "gemini", modelName |-> FALLBACK_GEMINI_MODEL,
   apiUrl |-> FALLBACK_OLLAMA_API_URL, apiKey |-> e.GEMINI_API_KEY]

\* lines 173-178
Fallback(e) == [type |-> "gemini", modelName |-> FALLBACK_GEMINI_MODEL,
                apiUrl |-> FALLBACK_GEMINI_API_URL, apiKey |-> e.GEMINI_API_KEY]

\* a resolution that leaves no summary
InfoOf_Nothing(resolved) == NoInfo

\* lines 179-182 and 234-237
InfoOf(resolved) == [type |-> resolved.type, modelName |-> resolved.modelName]

\* lines 119-124 and 484-489: the summary the status path builds
SummaryOf(providerType, providerConfig) ==
  [type |-> providerType,
   modelName |-> IF providerConfig.modelName # "" THEN providerConfig.modelName
                 ELSE IF providerType = "gemini" THEN FALLBACK_GEMINI_MODEL
                 ELSE FALLBACK_OLLAMA_MODEL]

(***************************************************************************)
(* index.js: broadcast                                                     *)
(***************************************************************************)
\* a broadcast that ends after its first send
Receivers_FirstOnly ==
  LET open == {c \in connectedClients : readyState[c] = OPEN}
  IN IF open = {} THEN {} ELSE {CHOOSE c \in open : TRUE}

\* lines 278-282: the sockets broadcast(data) sends to
Receivers == {c \in connectedClients : readyState[c] = OPEN}

StatusMsg(streaming, interval, provider, to) ==
  [type |-> "status", isStreaming |-> streaming, interval |-> interval,
   provider |-> provider, message |-> "", to |-> to]
EventMsg(provider, to) ==
  [type |-> "error-log", isStreaming |-> FALSE, interval |-> UNDEF,
   provider |-> provider, message |-> "", to |-> to]
\* lines 350-357
ErrorMsg(text, provider, to) ==
  [type |-> "error", isStreaming |-> FALSE, interval |-> UNDEF,
   provider |-> provider,
   message |-> IF text # "" THEN text ELSE "Failed to generate error log",
   to |-> to]

\* ran: op names the segment, ok tells whether it took its success path,
\* fin how a tick ended in it ("" when none did)
Ran(op, ok) == [op |-> op, ok |-> ok, fin |-> ""]
RanTick(op, ok, fin) == [op |-> op, ok |-> ok, fin |-> fin]
\* a REST handler answered with HTTP status code
RanHttp(op, code) == [op |-> op, ok |-> (code = "200"), fin |-> code]

\* the status messages of a segment that socket c was sent
StatusTo(msgs, c) ==
  {i \in 1..Len(msgs) : msgs[i].type = "status" /\ c \in msgs[i].to}

\* the history lastStatus after a segment: the run state of the last status
\* message the segment sent to each registered socket
Heard ==
  lastStatus' =
    [c \in DOMAIN lastStatus |->
       IF c \notin connectedClients' THEN "none"
       ELSE IF StatusTo(out', c) = {} THEN lastStatus[c]
       ELSE LET last == CHOOSE i \in StatusTo(out', c) :
                          \A j \in StatusTo(out', c) : j <= i
            IN IF out'[last].isStreaming THEN "on" ELSE "off"]

\* the table ai_provider_settings and the environment the server starts
\* with: nothing configured; only the environment key; a stored active
\* gemini provider
Row(m, u, k, a) == [present |-> TRUE, modelName |-> m, apiUrl |-> u,
                    apiKey |-> k, isActive |-> a]
Env(k) == [GEMINI_API_KEY |-> k, OLLAMA_API_KEY |-> ""]
NoRows == [t \in ProviderTypes |-> NoRow]
Deployments ==
  { <<NoRows, Env("")>>,
    <<NoRows, Env("env-key")>>,
    <<[NoRows EXCEPT !["gemini"] = Row("g-model", "", "stored-key", TRUE)], Env("")>> }

Init ==
  /\ config = [interval |-> DEFAULT_INTERVAL, template |-> DEFAULT_TEMPLATE]
  /\ currentProviderInfo = NoInfo
  /\ currentVariationLimit = DEFAULT_VARIATION_LIMIT
  /\ streamInterval = 0
  /\ isStreaming = FALSE
  /\ connectedClients = {}
  /\ timers = [i \in TimerIds |-> 0]
  /\ readyState = [c \in Clients |-> 0]
  /\ ticks = EmptyBag
  /\ statusJobs = EmptyBag
  /\ cfgReq = NoRequest
  /\ appConfig = [ACTIVE_PROVIDER |-> "", ERROR_VARIATION_LIMIT |-> Undefined]
  /\ \E d \in Deployments : providerRows = d[1] /\ env = d[2]
  /\ lastResolved = NoResolved
  /\ lastConfigured = NoInfo
  /\ lastStatus = [c \in DOMAIN readyState |-> "none"]
  /\ out = <<>>
  /\ ran = Ran("init", TRUE)

(***************************************************************************)
(* index.js: the stream controller.  startStream and stopStream are       *)
(* called in sequence by POST /api/config, so they are written as         *)
(* functions of the controller state                                       *)
(*   [isStreaming, streamInterval, timers, ticks, status, success]        *)
(* where status lists the overrides of the broadcastStatus calls made and *)
(* success is the return value.                                            *)
(***************************************************************************)
Ctl == [isStreaming |-> isStreaming, streamInterval |-> streamInterval,
        timers |-> timers, ticks |-> ticks, status |-> <<>>, success |-> TRUE]

\* a generateAndBroadcast invocation suspended at its first await
\* (getAIProviderSettings, line 155); caller tells it from the handler of
\* POST /api/generate-error, which runs the same calls
NewTick == [pc |-> "settings", ai |-> NoSettings, provider |-> NoResolved,
            caller |-> "stream"]

\* the handle setInterval returns: one that names no armed timer and is not
\* the handle the program holds
FreeHandles(ctl) == {i \in TimerIds : ctl.timers[i] = 0 /\ i # ctl.streamInterval}
NewHandle(ctl) == CHOOSE i \in FreeHandles(ctl) : \A j \in FreeHandles(ctl) : i <= j

\* clearInterval(handle)
clearInterval(tm, handle) == [i \in TimerIds |-> IF i = handle THEN 0 ELSE tm[i]]

\* startStream without the isStreaming check of lines 287-289
startStream_NoGuard(ctl, interval, cfgInterval) ==
  LET streamIntervalMs == IF interval \notin {UNDEF, 0} THEN interval
                          ELSE cfgInterval
      h == NewHandle(ctl)
  IN [isStreaming |-> TRUE,
      streamInterval |-> h,
      timers |-> [ctl.timers EXCEPT ![h] = streamIntervalMs],
      ticks |-> ctl.ticks (+) SetToBag({NewTick}),
      status |-> Append(ctl.status, streamIntervalMs),
      success |-> TRUE]

\* startStream arming the timer with config.interval whatever its argument
startStream_IgnoresOverride(ctl, interval, cfgInterval) ==
  IF ctl.isStreaming
  THEN [ctl EXCEPT !.success = FALSE]
  ELSE LET h == NewHandle(ctl)
       IN [isStreaming |-> TRUE,
           streamInterval |-> h,
           timers |-> [ctl.timers EXCEPT ![h] = cfgInterval],
           ticks |-> ctl.ticks (+) SetToBag({NewTick}),
           status |-> Append(ctl.status, cfgInterval),
           success |-> TRUE]

\* lines 286-304; cfgInterval is config.interval
startStream(ctl, interval, cfgInterval) ==
  IF ctl.isStreaming
  THEN [ctl EXCEPT !.success = FALSE]
  ELSE LET streamIntervalMs == IF interval \notin {UNDEF, 0} THEN interval
                               ELSE cfgInterval
           h == NewHandle(ctl)
       IN [isStreaming |-> TRUE,
           streamInterval |-> h,
           timers |-> [ctl.timers EXCEPT ![h] = streamIntervalMs],
           ticks |-> ctl.ticks (+) SetToBag({NewTick}),
           status |-> Append(ctl.status, streamIntervalMs),
           success |-> TRUE]

\* stopStream without the isStreaming check of lines 308-310
stopStream_NoGuard(ctl) ==
  [ctl EXCEPT !.isStreaming = FALSE,
              !.timers = IF ctl.streamInterval # 0
                         THEN clearInterval(ctl.timers, ctl.streamInterval)
                         ELSE ctl.timers,
              !.streamInterval = 0,
              !.status = Append(ctl.status, UNDEF),
              !.success = TRUE]

\* a stopStream that broadcasts no status update
stopStream_NoStatus(ctl) ==
  IF ~ctl.isStreaming
  THEN [ctl EXCEPT !.success = FALSE]
  ELSE [ctl EXCEPT !.isStreaming = FALSE,
                   !.timers = IF ctl.streamInterval # 0
                              THEN clearInterval(ctl.timers, ctl.streamInterval)
                              ELSE ctl.timers,
                   !.streamInterval = 0,
                   !.success = TRUE]

\* stopStream dropping the handle without clearInterval
stopStream_NoClear(ctl) ==
  IF ~ctl.isStreaming
  THEN [ctl EXCEPT !.success = FALSE]
  ELSE [ctl EXCEPT !.isStreaming = FALSE,
                   !.streamInterval = 0,
                   !.status = Append(ctl.status, UNDEF),
                   !.success = TRUE]

\* lines 307-320
stopStream(ctl) ==
  IF ~ctl.isStreaming
  THEN [ctl EXCEPT !.success = FALSE]
  ELSE [ctl EXCEPT !.isStreaming = FALSE,
                   !.timers = IF ctl.streamInterval # 0
                              THEN clearInterval(ctl.timers, ctl.streamInterval)
                              ELSE ctl.timers,
                   !.streamInterval = 0,
                   !.status = Append(ctl.status, UNDEF),
                   !.success = TRUE]

\* a suspended ensureCurrentProviderInfo call and what its caller does with
\* the result: target "all" = broadcast, c = ws.send to socket c
StatusJob(target, override) ==
  [pc |-> "settings", target |-> target, override |-> override, ai |-> NoSettings]

\* lines 132-152 with 84-87: the broadcastStatus calls of a segment.  With a
\* cached summary each continuation runs when the segment ends and reads
\* isStreaming and config.interval as they are then; without one the call
\* waits for the database.  info is currentProviderInfo at the calls.
BroadcastStatus(overrides, streaming, cfgInterval, info) ==
  IF info.type # ""
  THEN /\ out' = [i \in 1..Len(overrides) |->
                    StatusMsg(streaming,
                              IF overrides[i] # UNDEF THEN overrides[i] ELSE cfgInterval,
                              info, Receivers)]
       /\ statusJobs' = statusJobs
  ELSE /\ out' = <<>>
       /\ statusJobs' = statusJobs (+)
            [j \in {StatusJob("all", overrides[i]) : i \in 1..Len(overrides)} |->
               Cardinality({i \in 1..Len(overrides) : StatusJob("all", overrides[i]) = j})]

\* the controller state after the segment
SetCtl(ctl) ==
  /\ isStreaming' = ctl.isStreaming
  /\ streamInterval' = ctl.streamInterval
  /\ timers' = ctl.timers
  /\ ticks' = ctl.ticks

\* the bound of the model on what a segment leaves suspended
Bounded ==
  BagCardinality(ticks') + BagCardinality(statusJobs') +
    (IF cfgReq'.pc = "idle" THEN 0 ELSE 1) <= MaxPending

\* GET /api/start-stream, lines 364-376
StartRequest(q) ==
  LET interval == IF q \notin {UNDEF, 0} THEN q ELSE config.interval
      ctl == startStream(Ctl, interval, config.interval)
  IN /\ (~isStreaming => FreeHandles(Ctl) # {})
     /\ SetCtl(ctl)
     /\ BroadcastStatus(ctl.status, ctl.isStreaming, config.interval, currentProviderInfo)
     /\ ran' = Ran("start", ctl.success)
     /\ UNCHANGED <<config, currentProviderInfo, currentVariationLimit,
                    connectedClients, readyState, cfgReq, providerRows,
                    appConfig, env, lastResolved, lastConfigured>>
     /\ Heard
     /\ Bounded

\* GET /api/stop-stream, lines 379-390
StopRequest ==
  LET ctl == stopStream(Ctl)
  IN /\ SetCtl(ctl)
     /\ BroadcastStatus(ctl.status, ctl.isStreaming, config.interval, currentProviderInfo)
     /\ ran' = Ran("stop", ctl.success)
     /\ UNCHANGED <<config, currentProviderInfo, currentVariationLimit,
                    connectedClients, readyState, cfgReq, providerRows,
                    appConfig, env, lastResolved, lastConfigured>>
     /\ Heard
     /\ Bounded

\* a timer armed with setTimeout: it fires once
TimerFire_OneShot(i) ==
  /\ timers[i] # 0
  /\ ticks' = ticks (+) SetToBag({NewTick})
  /\ timers' = [timers EXCEPT ![i] = 0]
  /\ out' = <<>>
  /\ ran' = Ran("timer", TRUE)
  /\ UNCHANGED <<config, currentProviderInfo, currentVariationLimit,
                 streamInterval, isStreaming, connectedClients,
                 readyState, statusJobs, cfgReq, providerRows, appConfig, env, lastResolved, lastConfigured>>
  /\ Heard
  /\ Bounded

\* the callback of setInterval, lines 298-300: timer i fires
TimerFire(i) ==
  /\ timers[i] # 0
  /\ ticks' = ticks (+) SetToBag({NewTick})
  /\ out' = <<>>
  /\ ran' = Ran("timer", TRUE)
  /\ UNCHANGED <<config, currentProviderInfo, currentVariationLimit,
                 streamInterval, isStreaming, connectedClients, timers,
                 readyState, statusJobs, cfgReq, providerRows, appConfig, env, lastResolved, lastConfigured>>
  /\ Heard
  /\ Bounded

(***************************************************************************)
(* index.js: generateAndBroadcast, lines 323-359, one action per await.   *)
(***************************************************************************)
Upd(bag, old, new) == (bag (-) SetToBag({old})) (+) SetToBag({new})
Del(bag, old) == bag (-) SetToBag({old})

\* a catch block of POST /api/generate-error that broadcasts the error as
\* a tick does
TickFail_AlwaysBroadcasts(t, stage, text, provider) ==
  /\ ticks' = Del(ticks, t)
  /\ out' = <<ErrorMsg(text, provider, Receivers)>>
  /\ ran' = RanTick(stage, FALSE, IF t.caller = "once" THEN "500" ELSE "error")

\* a catch block that broadcasts an event message for the failed tick
TickFail_BroadcastsEvent(t, stage, text, provider) ==
  /\ ticks' = Del(ticks, t)
  /\ out' = IF t.caller = "once" THEN <<>>
            ELSE <<EventMsg(provider, Receivers)>>
  /\ ran' = RanTick(stage, FALSE, IF t.caller = "once" THEN "500" ELSE "error")

\* lines 348-358: the catch block of a tick; provider is currentProviderInfo
\* as the failing segment leaves it.  Lines 551-556: the catch block of
\* POST /api/generate-error answers 500
TickFail(t, stage, text, provider) ==
  /\ ticks' = Del(ticks, t)
  /\ out' = IF t.caller = "once" THEN <<>>
            ELSE <<ErrorMsg(text, provider, Receivers)>>
  /\ ran' = RanTick(stage, FALSE, IF t.caller = "once" THEN "500" ELSE "error")

TickGoes(t, stage, pc, ai, provider) ==
  /\ ticks' = Upd(ticks, t, [pc |-> pc, ai |-> ai, provider |-> provider,
                             caller |-> t.caller])
  /\ out' = <<>>
  /\ ran' = RanTick(stage, TRUE, "")

\* buildGenerationPrompt, lines 77-82, called with currentVariationLimit:
\* the limit it stores back
PromptLimit(limit) == clampVariationLimit(ToStr(limit))

\* geminiService.js generateSyntheticError, lines 150-199: the provider
\* types it has a client for
Supported(providerType) == providerType \in {"gemini", "ollama"}

\* lines 192-240 for a chosen provider, then lines 326-330 up to the await
\* of upsertAppConfig (line 238)
TickChosen(t, stage, aiSettings, providerType) ==
  LET err == ResolveError(aiSettings, providerType, env)
      resolved == ResolvedOf(providerType, aiSettings.providers[providerType], env)
  IN IF err # ""
     THEN /\ TickFail(t, stage, err, currentProviderInfo)
          /\ currentProviderInfo' = currentProviderInfo
     ELSE /\ TickGoes(t, stage, "upsert", NoSettings, resolved)
          /\ currentProviderInfo' = InfoOf(resolved)

\* line 155 returns
TickSettings(t, dbOk) ==
  /\ t \in BagToSet(ticks) /\ t.pc = "settings"
  /\ IF ~dbOk
     THEN /\ TickFail(t, "tick.settings", "database error", currentProviderInfo)
          /\ currentProviderInfo' = currentProviderInfo
     ELSE LET aiSettings == getAIProviderSettings(providerRows)
          IN IF aiSettings.activeProvider = ""
             THEN /\ TickGoes(t, "tick.settings", "appcfg", aiSettings, NoResolved)
                  /\ currentProviderInfo' = currentProviderInfo
             ELSE TickChosen(t, "tick.settings", aiSettings,
                             aiSettings.activeProvider)
  /\ UNCHANGED <<config, currentVariationLimit, streamInterval, isStreaming,
                 connectedClients, timers, readyState, statusJobs, cfgReq,
                 providerRows, appConfig, env, lastResolved, lastConfigured>>
  /\ Heard

\* line 159 returns
TickAppConfig(t, dbOk) ==
  /\ t \in BagToSet(ticks) /\ t.pc = "appcfg"
  /\ IF ~dbOk
     THEN /\ TickFail(t, "tick.appcfg", "database error", currentProviderInfo)
          /\ UNCHANGED <<currentProviderInfo, currentVariationLimit>>
     ELSE LET appConfigValues == getAppConfig(appConfig)
              providerType == ProviderFromAppConfig(t.ai, appConfigValues)
              limit == IF Truthy(appConfigValues.ERROR_VARIATION_LIMIT)
                       THEN clampVariationLimit(appConfigValues.ERROR_VARIATION_LIMIT)
                       ELSE currentVariationLimit
          IN /\ currentVariationLimit' = limit
             /\ IF providerType # ""
                THEN TickChosen(t, "tick.appcfg", t.ai, providerType)
                ELSE IF env.GEMINI_API_KEY # ""
                THEN /\ TickGoes(t, "tick.appcfg", "upsertFallback", NoSettings,
                                 Fallback(env))
                     /\ currentProviderInfo' = InfoOf(Fallback(env))
                ELSE /\ TickFail(t, "tick.appcfg",
                          "No AI provider configured. Please configure one in Settings.",
                          currentProviderInfo)
                     /\ currentProviderInfo' = currentProviderInfo
  /\ UNCHANGED <<config, streamInterval, isStreaming, connectedClients, timers,
                 readyState, statusJobs, cfgReq, providerRows, appConfig, env, lastResolved, lastConfigured>>
  /\ Heard

\* line 183 returns
TickUpsertFallback(t, dbOk) ==
  /\ t \in BagToSet(ticks) /\ t.pc = "upsertFallback"
  /\ IF ~dbOk
     THEN /\ TickFail(t, "tick.upsertFallback", "database error", currentProviderInfo)
          /\ appConfig' = appConfig
     ELSE /\ TickGoes(t, "tick.upsertFallback", "getLimit", NoSettings, t.provider)
          /\ appConfig' = upsertAppConfig(appConfig, "ACTIVE_PROVIDER", t.provider.type)
  /\ UNCHANGED <<config, currentProviderInfo, currentVariationLimit,
                 streamInterval, isStreaming, connectedClients, timers,
                 readyState, statusJobs, cfgReq, providerRows, env, lastResolved, lastConfigured>>
  /\ Heard

\* what the backend call of a resolved provider starts as: a fetch to wait
\* for, or the throw of line 199
TickCalls(t, stage, provider) ==
  IF Supported(provider.type)
  THEN TickGoes(t, stage, "backend", NoSettings, provider)
  ELSE TickFail(t, stage, "Unsupported AI provider", currentProviderInfo)

\* line 185 returns, then lines 326-330 up to the fetch
TickGetLimit(t, dbOk) ==
  /\ t \in BagToSet(ticks) /\ t.pc = "getLimit"
  /\ IF ~dbOk
     THEN /\ TickFail(t, "tick.getLimit", "database error", currentProviderInfo)
          /\ UNCHANGED <<currentVariationLimit, lastResolved>>
     ELSE /\ TickCalls(t, "tick.getLimit", t.provider)
          /\ lastResolved' = t.provider
          /\ currentVariationLimit' =
               PromptLimit(clampVariationLimit(getAppConfig(appConfig).ERROR_VARIATION_LIMIT))
  /\ UNCHANGED <<config, currentProviderInfo, streamInterval, isStreaming,
                 connectedClients, timers, readyState, statusJobs, cfgReq,
                 providerRows, appConfig, env, lastConfigured>>
  /\ Heard

\* line 238 returns, then lines 326-330 up to the fetch
TickUpsert(t, dbOk) ==
  /\ t \in BagToSet(ticks) /\ t.pc = "upsert"
  /\ IF ~dbOk
     THEN /\ TickFail(t, "tick.upsert", "database error", currentProviderInfo)
          /\ UNCHANGED <<appConfig, currentVariationLimit, lastResolved>>
     ELSE /\ TickCalls(t, "tick.upsert", t.provider)
          /\ lastResolved' = t.provider
          /\ appConfig' = upsertAppConfig(appConfig, "ACTIVE_PROVIDER", t.provider.type)
          /\ currentVariationLimit' = PromptLimit(currentVariationLimit)
  /\ UNCHANGED <<config, currentProviderInfo, streamInterval, isStreaming,
                 connectedClients, timers, readyState, statusJobs, cfgReq,
                 providerRows, env, lastConfigured>>
  /\ Heard

\* geminiService.js lines 57-69, 109-129, 160-176, 187-196 and 203-211: the
\* message of the error generateSyntheticError throws for a backend outcome
BackendError(providerType, outcome) ==
  CASE outcome = "http_429" -> "Rate limit exceeded. Please try again later."
    [] outcome = "http_401" ->
         IF providerType = "gemini"
         THEN "API quota exceeded. Please check your Gemini API quota."
         ELSE "Ollama API error: 401"
    [] outcome = "http_500" ->
         IF providerType = "gemini" THEN "Gemini API error: 500"
         ELSE "Ollama API error: 500"
    [] outcome = "no_content" ->
         IF providerType = "gemini" THEN "No content generated from Gemini"
         ELSE "No content generated from Ollama"
    [] outcome = "invalid_json" ->
         IF providerType = "gemini" THEN "Invalid JSON generated by Gemini"
         ELSE "Invalid JSON generated by Ollama"
    [] OTHER -> ""

\* a tick that broadcasts its event when the payload is parsed, before the
\* insert is issued
TickBackend_BroadcastsFirst(t, outcome) ==
  /\ t \in BagToSet(ticks) /\ t.pc = "backend"
  /\ CASE outcome = "object" ->
            /\ ticks' = Upd(ticks, t, [t EXCEPT !.pc = "persist"])
            /\ out' = <<EventMsg(currentProviderInfo, Receivers)>>
            /\ ran' = RanTick("tick.backend", TRUE, "")
       [] outcome = "falsy" ->
            /\ ticks' = Del(ticks, t)
            /\ out' = <<>>
            /\ ran' = IF t.caller = "once"
                      THEN RanTick("tick.backend", FALSE, "500")
                      ELSE RanTick("tick.backend", TRUE, "silent")
       [] OTHER ->
            TickFail(t, "tick.backend", BackendError(t.provider.type, outcome),
                     currentProviderInfo)
  /\ UNCHANGED <<config, currentProviderInfo, currentVariationLimit,
                 streamInterval, isStreaming, connectedClients, timers,
                 readyState, statusJobs, cfgReq, providerRows, appConfig, env, lastResolved, lastConfigured>>
  /\ Heard

\* line 327 returns: the backend answered.  "object": the text parses to an
\* object; "falsy": it parses to null, false, 0 or ""
TickBackend(t, outcome) ==
  /\ t \in BagToSet(ticks) /\ t.pc = "backend"
  /\ CASE outcome = "object" ->
            TickGoes(t, "tick.backend", "persist", NoSettings, t.provider)
       [] outcome = "falsy" ->
            /\ ticks' = Del(ticks, t)
            /\ out' = <<>>
            /\ ran' = IF t.caller = "once"
                      THEN RanTick("tick.backend", FALSE, "500")
                      ELSE RanTick("tick.backend", TRUE, "silent")
       [] OTHER ->
            TickFail(t, "tick.backend", BackendError(t.provider.type, outcome),
                     currentProviderInfo)
  /\ UNCHANGED <<config, currentProviderInfo, currentVariationLimit,
                 streamInterval, isStreaming, connectedClients, timers,
                 readyState, statusJobs, cfgReq, providerRows, appConfig, env, lastResolved, lastConfigured>>
  /\ Heard

\* generateAndBroadcast dropping the event of a tick that ends after stop
TickPersist_SkipWhenStopped(t, dbOk) ==
  /\ t \in BagToSet(ticks) /\ t.pc = "persist"
  /\ ticks' = Del(ticks, t)
  /\ out' = IF isStreaming THEN <<EventMsg(currentProviderInfo, Receivers)>>
            ELSE <<>>
  /\ ran' = RanTick("tick.persist", dbOk, "event")
  /\ UNCHANGED <<config, currentProviderInfo, currentVariationLimit,
                 streamInterval, isStreaming, connectedClients, timers,
                 readyState, statusJobs, cfgReq, providerRows, appConfig, env, lastResolved, lastConfigured>>
  /\ Heard

\* generateAndBroadcast without the inner try/catch of lines 334-338
TickPersist_RethrowsDbError(t, dbOk) ==
  /\ t \in BagToSet(ticks) /\ t.pc = "persist"
  /\ IF dbOk
     THEN /\ ticks' = Del(ticks, t)
          /\ out' = <<EventMsg(currentProviderInfo, Receivers)>>
          /\ ran' = RanTick("tick.persist", TRUE, "event")
     ELSE TickFail(t, "tick.persist", "database error", currentProviderInfo)
  /\ UNCHANGED <<config, currentProviderInfo, currentVariationLimit,
                 streamInterval, isStreaming, connectedClients, timers,
                 readyState, statusJobs, cfgReq, providerRows, appConfig, env, lastResolved, lastConfigured>>
  /\ Heard

\* line 335 returns or throws (postgres.js lines 25-57), then lines 340-346;
\* for POST /api/generate-error line 545, then line 550
TickPersist(t, dbOk) ==
  /\ t \in BagToSet(ticks) /\ t.pc = "persist"
  /\ ticks' = Del(ticks, t)
  /\ out' = IF t.caller = "once" THEN <<>>
            ELSE <<EventMsg(currentProviderInfo, Receivers)>>
  \* ok = FALSE: the await threw and the catch of line 336 or 546 ran
  /\ ran' = RanTick("tick.persist", ~insertErrorLog(dbOk).threw,
                    IF t.caller = "once" THEN "200" ELSE "event")
  /\ UNCHANGED <<config, currentProviderInfo, currentVariationLimit,
                 streamInterval, isStreaming, connectedClients, timers,
                 readyState, statusJobs, cfgReq, providerRows, appConfig, env, lastResolved, lastConfigured>>
  /\ Heard

\* POST /api/generate-error, lines 530-532, up to the await of
\* getAIProviderSettings (line 155)
GenerateOnceRequest ==
  /\ ticks' = ticks (+) SetToBag({[NewTick EXCEPT !.caller = "once"]})
  /\ out' = <<>>
  /\ ran' = Ran("once", TRUE)
  /\ UNCHANGED <<config, currentProviderInfo, currentVariationLimit,
                 streamInterval, isStreaming, connectedClients, timers,
                 readyState, statusJobs, cfgReq, providerRows, appConfig, env,
                 lastResolved, lastConfigured>>
  /\ Heard
  /\ Bounded

(***************************************************************************)
(* index.js: ensureCurrentProviderInfo, lines 84-130, past its first      *)
(* line.  Each operator gives what the call does when an await returns:   *)
(* next = "appcfg" (goes on to getAppConfig) or "return"; result is the   *)
(* value returned, info the new currentProviderInfo, limit the new        *)
(* currentVariationLimit.                                                  *)
(***************************************************************************)
\* line 90 returns
EnsureSettings(dbOk) ==
  IF ~dbOk
  THEN [next |-> "return", result |-> currentProviderInfo,
        info |-> currentProviderInfo, ai |-> NoSettings]
  ELSE LET aiSettings == getAIProviderSettings(providerRows)
           providerType == aiSettings.activeProvider
           summary == SummaryOf(providerType, aiSettings.providers[providerType])
       IN IF providerType = ""
          THEN [next |-> "appcfg", result |-> NoInfo,
                info |-> currentProviderInfo, ai |-> aiSettings]
          ELSE [next |-> "return", result |-> summary, info |-> summary,
                ai |-> NoSettings]

\* line 94 returns
EnsureAppConfig(aiSettings, dbOk) ==
  IF ~dbOk
  THEN [result |-> currentProviderInfo, info |-> currentProviderInfo,
        limit |-> currentVariationLimit]
  ELSE LET appConfigValues == getAppConfig(appConfig)
           providerType == ProviderFromAppConfig(aiSettings, appConfigValues)
           limit == IF Truthy(appConfigValues.ERROR_VARIATION_LIMIT)
                    THEN clampVariationLimit(appConfigValues.ERROR_VARIATION_LIMIT)
                    ELSE currentVariationLimit
           summary == SummaryOf(providerType, aiSettings.providers[providerType])
       IN IF providerType # ""
          THEN [result |-> summary, info |-> summary, limit |-> limit]
          ELSE IF env.GEMINI_API_KEY # ""
          THEN [result |-> InfoOf(Fallback(env)), info |-> InfoOf(Fallback(env)),
                limit |-> limit]
          ELSE [result |-> NoInfo, info |-> currentProviderInfo, limit |-> limit]

\* lines 135-141 and 254-261: what the caller of a suspended
\* ensureCurrentProviderInfo does with the provider it returns
Deliver(j, provider) ==
  out' = << StatusMsg(isStreaming,
                      IF j.override # UNDEF THEN j.override ELSE config.interval,
                      provider,
                      IF j.target = "all" THEN Receivers
                      ELSE {c \in {j.target} : readyState[c] = OPEN}) >>

JobSettings(j, dbOk) ==
  LET e == EnsureSettings(dbOk)
  IN /\ j \in BagToSet(statusJobs) /\ j.pc = "settings"
     /\ currentProviderInfo' = e.info
     /\ IF e.next = "appcfg"
        THEN /\ statusJobs' = Upd(statusJobs, j, [j EXCEPT !.pc = "appcfg", !.ai = e.ai])
             /\ out' = <<>>
        ELSE /\ statusJobs' = Del(statusJobs, j)
             /\ Deliver(j, e.result)
     /\ ran' = Ran("status.settings", dbOk)
     /\ UNCHANGED <<config, currentVariationLimit, streamInterval, isStreaming,
                    connectedClients, timers, readyState, ticks, cfgReq,
                    providerRows, appConfig, env, lastResolved, lastConfigured>>
     /\ Heard

JobAppConfig(j, dbOk) ==
  LET e == EnsureAppConfig(j.ai, dbOk)
  IN /\ j \in BagToSet(statusJobs) /\ j.pc = "appcfg"
     /\ currentProviderInfo' = e.info
     /\ currentVariationLimit' = e.limit
     /\ statusJobs' = Del(statusJobs, j)
     /\ Deliver(j, e.result)
     /\ ran' = Ran("status.appcfg", dbOk)
     /\ UNCHANGED <<config, streamInterval, isStreaming, connectedClients,
                    timers, readyState, ticks, cfgReq, providerRows, appConfig,
                    env, lastResolved, lastConfigured>>
     /\ Heard

(***************************************************************************)
(* index.js: the WebSocket connection handler, lines 249-273              *)
(***************************************************************************)
\* a client connects: lines 250-262
Connect(c) ==
  /\ readyState[c] = 0
  /\ \A j \in BagToSet(statusJobs) : j.target # c
  /\ readyState' = [readyState EXCEPT ![c] = OPEN]
  /\ connectedClients' = connectedClients \cup {c}
  /\ IF currentProviderInfo.type # ""
     THEN /\ out' = <<StatusMsg(isStreaming, config.interval, currentProviderInfo, {c})>>
          /\ statusJobs' = statusJobs
     ELSE /\ out' = <<>>
          /\ statusJobs' = statusJobs (+) SetToBag({StatusJob(c, UNDEF)})
  /\ ran' = Ran("connect", TRUE)
  /\ UNCHANGED <<config, currentProviderInfo, currentVariationLimit,
                 streamInterval, isStreaming, timers, ticks, cfgReq,
                 providerRows, appConfig, env, lastResolved, lastConfigured>>
  /\ Heard
  /\ Bounded

\* the socket of a client starts closing (readyState CLOSING = 2); its
\* 'close' event has not been dispatched yet
Closing(c) ==
  /\ readyState[c] = OPEN
  /\ readyState' = [readyState EXCEPT ![c] = 2]
  /\ out' = <<>>
  /\ ran' = Ran("closing", TRUE)
  /\ UNCHANGED <<config, currentProviderInfo, currentVariationLimit,
                 streamInterval, isStreaming, connectedClients, timers, ticks,
                 statusJobs, cfgReq, providerRows, appConfig, env, lastResolved, lastConfigured>>
  /\ Heard

\* the 'close' or 'error' handler runs: lines 264-272
Disconnect(c) ==
  /\ readyState[c] # 0
  /\ c \in connectedClients
  /\ connectedClients' = connectedClients \ {c}
  /\ readyState' = [readyState EXCEPT ![c] = 0]
  /\ out' = <<>>
  /\ ran' = Ran("disconnect", TRUE)
  /\ UNCHANGED <<config, currentProviderInfo, currentVariationLimit,
                 streamInterval, isStreaming, timers, ticks, statusJobs, cfgReq,
                 providerRows, appConfig, env, lastResolved, lastConfigured>>
  /\ Heard

(***************************************************************************)
(* index.js: POST /api/config, lines 430-513, one action per await.  One  *)
(* request is handled at a time.                                           *)
(***************************************************************************)
\* the range check without its upper bound
IntervalRejected_NoUpperBound(interval) == interval < MIN_INTERVAL

\* line 435
IntervalRejected(interval) == interval < MIN_INTERVAL \/ interval > MAX_INTERVAL

\* lines 506-512: the catch block
ConfigFails(stage) ==
  /\ cfgReq' = NoRequest
  /\ ran' = RanHttp(stage, "500")

\* a configure that stores the interval and leaves the running timer alone
Restart_KeepsTimer(ctl, interval) == ctl

\* a restart that stops the stream and does not start it again
Restart_StopsOnly(ctl, interval) == stopStream(ctl)

\* a restart that arms the new timer without stopping the stream first
Restart_WithoutStop(ctl, interval) == startStream_NoGuard(ctl, interval, interval)

\* lines 444-445: stopStream() then startStream(interval); config.interval
\* is interval by then (line 440)
Restart(ctl, interval) == startStream(stopStream(ctl), interval, interval)

\* lines 431-459 up to the await of line 456 or 458
ConfigRequest(interval, template, aiProvider, appConfigPayload) ==
  /\ cfgReq.pc = "idle"
  /\ IF interval # UNDEF /\ IntervalRejected(interval)
     THEN /\ ran' = RanHttp("configure", "400")
          /\ out' = <<>>
          /\ UNCHANGED <<config, streamInterval, isStreaming, timers, ticks,
                         statusJobs, cfgReq>>
     ELSE LET restart == interval # UNDEF /\ isStreaming
              ctl == IF restart THEN Restart(Ctl, interval) ELSE Ctl
          IN /\ config' = [interval |-> IF interval # UNDEF THEN interval
                                        ELSE config.interval,
                           template |-> IF template # "undefined" THEN template
                                        ELSE config.template]
             /\ (restart => FreeHandles(stopStream(Ctl)) # {})
             /\ SetCtl(ctl)
             /\ BroadcastStatus(ctl.status, ctl.isStreaming, config'.interval,
                                currentProviderInfo)
             /\ IF aiProvider.given /\
                   (aiProvider.activeProvider = "" \/ Len(aiProvider.providers) = 0)
                THEN ConfigFails("configure")
                ELSE /\ cfgReq' = [pc |-> "settings", ai |-> aiProvider,
                                   app |-> appConfigPayload,
                                   settings |-> NoSettings, ens |-> NoSettings]
                     /\ ran' = Ran("configure", TRUE)
  /\ UNCHANGED <<currentProviderInfo, currentVariationLimit, connectedClients,
                 readyState, providerRows, appConfig, env, lastResolved, lastConfigured>>
  /\ Heard
  /\ Bounded

\* line 456 or 458 returns or throws.  outcome "fail": a statement fails
\* before COMMIT; "readfail": the query of line 210 fails after COMMIT
ConfigSettings(outcome) ==
  /\ cfgReq.pc = "settings"
  /\ outcome = "readfail" => cfgReq.ai.given
  /\ LET saved == IF cfgReq.ai.given
                  THEN saveAIProviderSettings(providerRows, cfgReq.ai, outcome # "fail")
                  ELSE [ok |-> outcome = "ok", rows |-> providerRows]
     IN /\ providerRows' = saved.rows
        /\ lastConfigured' = IF saved.rows # providerRows THEN NoInfo
                             ELSE lastConfigured
        /\ IF saved.ok /\ outcome = "ok"
           THEN /\ cfgReq' = [cfgReq EXCEPT !.pc = "appcfg",
                                !.settings = getAIProviderSettings(saved.rows)]
                /\ ran' = Ran("configure.settings", TRUE)
           ELSE ConfigFails("configure.settings")
  /\ out' = <<>>
  /\ UNCHANGED <<config, currentProviderInfo, currentVariationLimit,
                 streamInterval, isStreaming, connectedClients, timers,
                 readyState, ticks, statusJobs, appConfig, env, lastResolved>>
  /\ Heard

\* lines 495-505: broadcastStatus() and the 200 response; info is
\* currentProviderInfo by then
ConfigDone(stage, info) ==
  /\ BroadcastStatus(<<UNDEF>>, isStreaming, config.interval, info)
  /\ cfgReq' = NoRequest
  /\ ran' = RanHttp(stage, "200")

\* line 468 or 470 returns or throws, then lines 473-492
ConfigAppConfig(dbOk) ==
  /\ cfgReq.pc = "appcfg"
  /\ IF ~dbOk
     THEN /\ ConfigFails("configure.appcfg")
          /\ out' = <<>>
          /\ UNCHANGED <<appConfig, currentVariationLimit, currentProviderInfo,
                         statusJobs, lastConfigured>>
     ELSE LET raw == cfgReq.app.ERROR_VARIATION_LIMIT
              stored == IF cfgReq.app.given /\ raw # Undefined
                        THEN upsertAppConfig(appConfig, "ERROR_VARIATION_LIMIT",
                                             ToStr(clampVariationLimit(raw)))
                        ELSE appConfig
              persistedAppConfig == getAppConfig(stored)
              active == cfgReq.settings.activeProvider
          IN /\ appConfig' = stored
             /\ lastConfigured' =
                  IF cfgReq.ai.given /\ active # ""
                  THEN SummaryOf(active, cfgReq.settings.providers[active])
                  ELSE lastConfigured
             /\ currentVariationLimit' =
                  IF persistedAppConfig.ERROR_VARIATION_LIMIT # Undefined
                  THEN clampVariationLimit(persistedAppConfig.ERROR_VARIATION_LIMIT)
                  ELSE clampVariationLimit(ToStr(currentVariationLimit))
             /\ IF active # ""
                THEN /\ currentProviderInfo' =
                          SummaryOf(active, cfgReq.settings.providers[active])
                     /\ ConfigDone("configure.appcfg", currentProviderInfo')
                ELSE IF currentProviderInfo.type # ""
                THEN /\ currentProviderInfo' = currentProviderInfo
                     /\ ConfigDone("configure.appcfg", currentProviderInfo)
                ELSE /\ cfgReq' = [cfgReq EXCEPT !.pc = "ensure.settings"]
                     /\ ran' = Ran("configure.appcfg", TRUE)
                     /\ out' = <<>>
                     /\ UNCHANGED <<currentProviderInfo, statusJobs>>
  /\ UNCHANGED <<config, streamInterval, isStreaming, connectedClients, timers,
                 readyState, ticks, providerRows, env, lastResolved>>
  /\ Heard
  /\ Bounded

\* line 492 is suspended at line 90, which returns
ConfigEnsureSettings(dbOk) ==
  LET e == EnsureSettings(dbOk)
  IN /\ cfgReq.pc = "ensure.settings"
     /\ currentProviderInfo' = e.info
     /\ IF e.next = "appcfg"
        THEN /\ cfgReq' = [cfgReq EXCEPT !.pc = "ensure.appcfg", !.ens = e.ai]
             /\ ran' = Ran("configure.ensure", TRUE)
             /\ out' = <<>>
             /\ statusJobs' = statusJobs
        ELSE ConfigDone("configure.ensure", e.info)
     /\ UNCHANGED <<config, currentVariationLimit, streamInterval, isStreaming,
                    connectedClients, timers, readyState, ticks, providerRows,
                    appConfig, env, lastResolved, lastConfigured>>
     /\ Heard
     /\ Bounded

\* line 492 is suspended at line 94, which returns
ConfigEnsureAppConfig(dbOk) ==
  LET e == EnsureAppConfig(cfgReq.ens, dbOk)
  IN /\ cfgReq.pc = "ensure.appcfg"
     /\ currentProviderInfo' = e.info
     /\ currentVariationLimit' = e.limit
     /\ ConfigDone("configure.ensure", e.info)
     /\ UNCHANGED <<config, streamInterval, isStreaming, connectedClients,
                    timers, readyState, ticks, providerRows, appConfig, env, lastResolved, lastConfigured>>
     /\ Heard
     /\ Bounded

(***************************************************************************)
(* The server: any handler or callback whose event has arrived runs.      *)
(***************************************************************************)
Next ==
  \/ \E q \in StartIntervals : StartRequest(q)
  \/ StopRequest
  \/ \E i \in TimerIds : TimerFire(i)
  \/ \E t \in BagToSet(ticks), dbOk \in BOOLEAN : TickSettings(t, dbOk)
  \/ \E t \in BagToSet(ticks), dbOk \in BOOLEAN : TickAppConfig(t, dbOk)
  \/ \E t \in BagToSet(ticks), dbOk \in BOOLEAN : TickUpsertFallback(t, dbOk)
  \/ \E t \in BagToSet(ticks), dbOk \in BOOLEAN : TickGetLimit(t, dbOk)
  \/ \E t \in BagToSet(ticks), dbOk \in BOOLEAN : TickUpsert(t, dbOk)
  \/ \E t \in BagToSet(ticks), o \in BackendOutcomes : TickBackend(t, o)
  \/ \E t \in BagToSet(ticks), dbOk \in BOOLEAN : TickPersist(t, dbOk)
  \/ \E j \in BagToSet(statusJobs), dbOk \in BOOLEAN : JobSettings(j, dbOk)
  \/ \E j \in BagToSet(statusJobs), dbOk \in BOOLEAN : JobAppConfig(j, dbOk)
  \/ \E c \in Clients : Connect(c)
  \/ \E c \in Clients : Closing(c)
  \/ \E c \in Clients : Disconnect(c)
  \/ \E body \in ConfigBodies, a \in AiPayloads, b \in AppPayloads :
        ConfigRequest(body.interval, body.template, a, b)
  \/ \E o \in {"ok", "fail", "readfail"} : ConfigSettings(o)
  \/ \E dbOk \in BOOLEAN : ConfigAppConfig(dbOk)
  \/ \E dbOk \in BOOLEAN : ConfigEnsureSettings(dbOk)
  \/ \E dbOk \in BOOLEAN : ConfigEnsureAppConfig(dbOk)

Spec == Init /\ [][Next]_vars

(***************************************************************************)
(* Scheduling.  The event loop serves its timer phase in every iteration, *)
(* so an armed timer that can fire again and again does fire (strong      *)
(* fairness); a database or backend call that was issued returns or       *)
(* fails eventually, which resumes the operation waiting for it.          *)
(***************************************************************************)
Resume ==
  \/ \E t \in BagToSet(ticks), dbOk \in BOOLEAN : TickSettings(t, dbOk)
  \/ \E t \in BagToSet(ticks), dbOk \in BOOLEAN : TickAppConfig(t, dbOk)
  \/ \E t \in BagToSet(ticks), dbOk \in BOOLEAN : TickUpsertFallback(t, dbOk)
  \/ \E t \in BagToSet(ticks), dbOk \in BOOLEAN : TickGetLimit(t, dbOk)
  \/ \E t \in BagToSet(ticks), dbOk \in BOOLEAN : TickUpsert(t, dbOk)
  \/ \E t \in BagToSet(ticks), o \in BackendOutcomes : TickBackend(t, o)
  \/ \E t \in BagToSet(ticks), dbOk \in BOOLEAN : TickPersist(t, dbOk)
  \/ \E j \in BagToSet(statusJobs), dbOk \in BOOLEAN : JobSettings(j, dbOk)
  \/ \E j \in BagToSet(statusJobs), dbOk \in BOOLEAN : JobAppConfig(j, dbOk)
  \/ \E o \in {"ok", "fail", "readfail"} : ConfigSettings(o)
  \/ \E dbOk \in BOOLEAN : ConfigAppConfig(dbOk)
  \/ \E dbOk \in BOOLEAN : ConfigEnsureSettings(dbOk)
  \/ \E dbOk \in BOOLEAN : ConfigEnsureAppConfig(dbOk)

FairSpec ==
  Spec /\ SF_vars(\E i \in TimerIds : TimerFire(i)) /\ WF_vars(Resume)

(***************************************************************************)
(* Provider resolution on its own: the server starts over any of the      *)
(* stored settings below, the stream is started, and each timer-driven    *)
(* tick begins after the one before has ended, so that the calls of       *)
(* resolveActiveAIProviderConfig come one after the other; no configure   *)
(* request is made.                                                        *)
(***************************************************************************)
\* contents of ai_provider_settings; at most one row is active (schema:
\* unique index on is_active)
StoredRows ==
  { NoRows,
    [NoRows EXCEPT !["gemini"] = Row("g-model", "", "stored-key", TRUE)],
    [NoRows EXCEPT !["gemini"] = Row("g-model", "", "", TRUE)],
    [NoRows EXCEPT !["gemini"] = Row("g-model", "http://g", "stored-key", FALSE)],
    [NoRows EXCEPT !["ollama"] = Row("o-model", "", "", TRUE)],
    [NoRows EXCEPT !["custom"] = Row("c-model", "", "", TRUE)],
    [NoRows EXCEPT !["custom"] = Row("c-model", "http://c", "", FALSE)],
    [NoRows EXCEPT !["gemini"] = Row("g-model", "", "stored-key", TRUE),
                   !["ollama"] = Row("o-model", "", "", FALSE)] }

\* contents of app_config
StoredPointers == {"", "gemini", "ollama", "custom"}
StoredLimits == {Undefined, <<"3">>, <<"2", "5">>}

ResolveInit ==
  /\ config = [interval |-> DEFAULT_INTERVAL, template |-> DEFAULT_TEMPLATE]
  /\ currentProviderInfo = NoInfo
  /\ currentVariationLimit = DEFAULT_VARIATION_LIMIT
  /\ streamInterval = 0
  /\ isStreaming = FALSE
  /\ connectedClients = {}
  /\ timers = [i \in TimerIds |-> 0]
  /\ readyState = [c \in Clients |-> 0]
  /\ ticks = EmptyBag
  /\ statusJobs = EmptyBag
  /\ cfgReq = NoRequest
  /\ providerRows \in StoredRows
  /\ \E a \in StoredPointers, v \in StoredLimits :
       appConfig = [ACTIVE_PROVIDER |-> a, ERROR_VARIATION_LIMIT |-> v]
  /\ env \in {Env(""), Env("env-key")}
  /\ lastResolved = NoResolved
  /\ lastConfigured = NoInfo
  /\ lastStatus = [c \in DOMAIN readyState |-> "none"]
  /\ out = <<>>
  /\ ran = Ran("init", TRUE)

\* the timer fires when the tick before has ended
TimerFireIdle(i) == BagCardinality(ticks) = 0 /\ TimerFire(i)

ResolveNext ==
  \/ \E q \in {UNDEF} : StartRequest(q)
  \/ \E i \in TimerIds : TimerFireIdle(i)
  \/ \E t \in BagToSet(ticks), dbOk \in BOOLEAN : TickSettings(t, dbOk)
  \/ \E t \in BagToSet(ticks), dbOk \in BOOLEAN : TickAppConfig(t, dbOk)
  \/ \E t \in BagToSet(ticks), dbOk \in BOOLEAN : TickUpsertFallback(t, dbOk)
  \/ \E t \in BagToSet(ticks), dbOk \in BOOLEAN : TickGetLimit(t, dbOk)
  \/ \E t \in BagToSet(ticks), dbOk \in BOOLEAN : TickUpsert(t, dbOk)
  \/ \E t \in BagToSet(ticks), o \in BackendOutcomes : TickBackend(t, o)
  \/ \E t \in BagToSet(ticks), dbOk \in BOOLEAN : TickPersist(t, dbOk)
  \/ \E j \in BagToSet(statusJobs), dbOk \in BOOLEAN : JobSettings(j, dbOk)
  \/ \E j \in BagToSet(statusJobs), dbOk \in BOOLEAN : JobAppConfig(j, dbOk)

ResolveSpec == ResolveInit /\ [][ResolveNext]_vars

(***************************************************************************)
(* The hub with several subscribers: broadcasts reach every open socket   *)
(* of the set.  A send that fails is reported by the socket's 'error'     *)
(* event after the segment that called send() (the calls of lines 254     *)
(* and 280 pass no callback and sit in no try block).                     *)
(***************************************************************************)
HubClients == {"ws1", "ws2"}

HubInit ==
  /\ config = [interval |-> DEFAULT_INTERVAL, template |-> DEFAULT_TEMPLATE]
  /\ currentProviderInfo = NoInfo
  /\ currentVariationLimit = DEFAULT_VARIATION_LIMIT
  /\ streamInterval = 0
  /\ isStreaming = FALSE
  /\ connectedClients = {}
  /\ timers = [i \in TimerIds |-> 0]
  /\ readyState = [c \in HubClients |-> 0]
  /\ ticks = EmptyBag
  /\ statusJobs = EmptyBag
  /\ cfgReq = NoRequest
  /\ appConfig = [ACTIVE_PROVIDER |-> "", ERROR_VARIATION_LIMIT |-> Undefined]
  /\ \E d \in Deployments : providerRows = d[1] /\ env = d[2]
  /\ lastResolved = NoResolved
  /\ lastConfigured = NoInfo
  /\ lastStatus = [c \in DOMAIN readyState |-> "none"]
  /\ out = <<>>
  /\ ran = Ran("init", TRUE)

\* the write of a message the last segment sent to socket c fails: the
\* 'error' handler runs (lines 269-272); the 'close' event that follows
\* finds c deleted already
SendFails(c) ==
  /\ c \in connectedClients
  /\ \E i \in 1..Len(out) :
       /\ c \in out[i].to
       /\ ran' = RanTick("send.error", FALSE, out[i].type)
  /\ connectedClients' = connectedClients \ {c}
  /\ readyState' = [readyState EXCEPT ![c] = 0]
  /\ out' = <<>>
  /\ UNCHANGED <<config, currentProviderInfo, currentVariationLimit,
                 streamInterval, isStreaming, timers, ticks, statusJobs, cfgReq,
                 providerRows, appConfig, env, lastResolved, lastConfigured>>
  /\ Heard

HubNext ==
  \/ \E q \in {UNDEF} : StartRequest(q)
  \/ StopRequest
  \/ \E i \in TimerIds : TimerFireIdle(i)
  \/ \E t \in BagToSet(ticks), dbOk \in BOOLEAN : TickSettings(t, dbOk)
  \/ \E t \in BagToSet(ticks), dbOk \in BOOLEAN : TickAppConfig(t, dbOk)
  \/ \E t \in BagToSet(ticks), dbOk \in BOOLEAN : TickUpsertFallback(t, dbOk)
  \/ \E t \in BagToSet(ticks), dbOk \in BOOLEAN : TickGetLimit(t, dbOk)
  \/ \E t \in BagToSet(ticks), dbOk \in BOOLEAN : TickUpsert(t, dbOk)
  \/ \E t \in BagToSet(ticks), o \in BackendOutcomes : TickBackend(t, o)
  \/ \E t \in BagToSet(ticks), dbOk \in BOOLEAN : TickPersist(t, dbOk)
  \/ \E j \in BagToSet(statusJobs), dbOk \in BOOLEAN : JobSettings(j, dbOk)
  \/ \E j \in BagToSet(statusJobs), dbOk \in BOOLEAN : JobAppConfig(j, dbOk)
  \/ \E c \in HubClients : Connect(c)
  \/ \E c \in HubClients : Closing(c)
  \/ \E c \in HubClients : Disconnect(c)
  \/ \E c \in HubClients : SendFails(c)

HubSpec == HubInit /\ [][HubNext]_vars

(***************************************************************************)
(* The REST API without POST /api/config: start with any interval the     *)
(* query string can carry, stop, single generations, one subscriber; each *)
(* timer-driven tick begins after the operations before it have ended.    *)
(***************************************************************************)
\* ?interval= of GET /api/start-stream: absent, and two numbers outside
\* the range POST /api/config accepts
AnyIntervals == {UNDEF, 50, 20000}

ApiNext ==
  \/ \E q \in AnyIntervals : StartRequest(q)
  \/ StopRequest
  \/ GenerateOnceRequest
  \/ \E i \in TimerIds : TimerFireIdle(i)
  \/ \E t \in BagToSet(ticks), dbOk \in BOOLEAN : TickSettings(t, dbOk)
  \/ \E t \in BagToSet(ticks), dbOk \in BOOLEAN : TickAppConfig(t, dbOk)
  \/ \E t \in BagToSet(ticks), dbOk \in BOOLEAN : TickUpsertFallback(t, dbOk)
  \/ \E t \in BagToSet(ticks), dbOk \in BOOLEAN : TickGetLimit(t, dbOk)
  \/ \E t \in BagToSet(ticks), dbOk \in BOOLEAN : TickUpsert(t, dbOk)
  \/ \E t \in BagToSet(ticks), o \in BackendOutcomes : TickBackend(t, o)
  \/ \E t \in BagToSet(ticks), dbOk \in BOOLEAN : TickPersist(t, dbOk)
  \/ \E j \in BagToSet(statusJobs), dbOk \in BOOLEAN : JobSettings(j, dbOk)
  \/ \E j \in BagToSet(statusJobs), dbOk \in BOOLEAN : JobAppConfig(j, dbOk)
  \/ \E c \in Clients : Connect(c)
  \/ \E c \in Clients : Disconnect(c)

ApiSpec == Init /\ [][ApiNext]_vars

(***************************************************************************)
(* POST /api/config storing provider settings, beside a running stream,   *)
(* single subscribers and their status snapshots.                          *)
(***************************************************************************)
\* aiProvider fields of the request body: one provider, active; two
\* providers, the second active; an activeProvider that is not among the
\* providers; a provider without modelName
SavePayloads ==
  { AiPayload("ollama", << <<"ollama", Entry("o-model", "", "")>> >>),
    AiPayload("custom", << <<"gemini", Entry("g2-model", "", "k2")>>,
                           <<"custom", Entry("c-model", "http://c", "")>> >>),
    AiPayload("gemini", << <<"ollama", Entry("o-model", "", "")>> >>),
    AiPayload("ollama", << <<"ollama", Entry("", "", "")>> >>) }

SaveNext ==
  \/ \E q \in {UNDEF} : StartRequest(q)
  \/ \E i \in TimerIds : TimerFireIdle(i)
  \/ \E t \in BagToSet(ticks), dbOk \in BOOLEAN : TickSettings(t, dbOk)
  \/ \E t \in BagToSet(ticks), dbOk \in BOOLEAN : TickAppConfig(t, dbOk)
  \/ \E t \in BagToSet(ticks), dbOk \in BOOLEAN : TickUpsertFallback(t, dbOk)
  \/ \E t \in BagToSet(ticks), dbOk \in BOOLEAN : TickGetLimit(t, dbOk)
  \/ \E t \in BagToSet(ticks), dbOk \in BOOLEAN : TickUpsert(t, dbOk)
  \/ \E t \in BagToSet(ticks), o \in BackendOutcomes : TickBackend(t, o)
  \/ \E t \in BagToSet(ticks), dbOk \in BOOLEAN : TickPersist(t, dbOk)
  \/ \E j \in BagToSet(statusJobs), dbOk \in BOOLEAN : JobSettings(j, dbOk)
  \/ \E j \in BagToSet(statusJobs), dbOk \in BOOLEAN : JobAppConfig(j, dbOk)
  \/ \E c \in Clients : Connect(c)
  \/ \E c \in Clients : Disconnect(c)
  \/ \E a \in SavePayloads \cup {NoAiPayload} :
        ConfigRequest(UNDEF, "undefined", a, NoAppPayload)
  \/ \E o \in {"ok", "fail", "readfail"} : ConfigSettings(o)
  \/ \E dbOk \in BOOLEAN : ConfigAppConfig(dbOk)
  \/ \E dbOk \in BOOLEAN : ConfigEnsureSettings(dbOk)
  \/ \E dbOk \in BOOLEAN : ConfigEnsureAppConfig(dbOk)

SaveSpec == Init /\ [][SaveNext]_vars

\* the database calls of the status snapshot of socket c return
SnapshotResumes(c) ==
  \E j \in BagToSet(statusJobs), dbOk \in BOOLEAN :
    j.target = c /\ (JobSettings(j, dbOk) \/ JobAppConfig(j, dbOk))

\* every database call that was issued returns or fails eventually
SaveFairSpec == SaveSpec /\ \A c \in Clients : WF_vars(SnapshotResumes(c))

(***************************************************************************)
(* The variation limit on its own: POST /api/config with an appConfig     *)
(* field whose ERROR_VARIATION_LIMIT is any short string.                  *)
(***************************************************************************)
LimitAlphabet == {"0", "1", "5", "9", "-", " ", ".", "a"}
LimitInputs == UNION {[1..n -> LimitAlphabet] : n \in 0..MaxInputLen}

ClampNext ==
  \/ \E v \in LimitInputs :
        ConfigRequest(UNDEF, "undefined", NoAiPayload, AppPayload(v))
  \/ \E o \in {"ok", "fail"} : ConfigSettings(o)
  \/ \E dbOk \in BOOLEAN : ConfigAppConfig(dbOk)
  \/ \E dbOk \in BOOLEAN : ConfigEnsureSettings(dbOk)
  \/ \E dbOk \in BOOLEAN : ConfigEnsureAppConfig(dbOk)

ClampSpec == Init /\ [][ClampNext]_vars

(***************************************************************************)
(* Properties.                                                             *)
(***************************************************************************)
InFlight == BagCardinality(ticks)
\* the last segment ended a tick
TickEnded == ran.fin # ""
TickMessages == {"error-log", "error"}

\* C1: no two ticks are ever in flight at once: in every reachable state at
\* most one generateAndBroadcast invocation has begun and not yet finished.
C1_AtMostOneTickInFlight == InFlight <= 1

\* C2: startStream while Running is a no-op that reports failure: run state,
\* timer handle, armed timers and their periods, the ticks in flight and the
\* pending status snapshots are unchanged and nothing is sent.
C2_StartWhileRunningIsNoOp ==
  [][(isStreaming /\ \E q \in StartIntervals : StartRequest(q))
       => /\ ~ran'.ok
          /\ UNCHANGED <<isStreaming, streamInterval, timers, ticks,
                         statusJobs, config>>
          /\ out' = <<>>]_vars

C2_Witness ==
  /\ ran = Ran("start", FALSE)
  /\ isStreaming
  /\ streamInterval # 0
  /\ timers[streamInterval] # 0

\* C3: stopStream while Stopped is a no-op that reports failure: the run
\* state stays Stopped, no timer is touched and nothing is sent.
C3_StopWhileStoppedIsNoOp ==
  [][(~isStreaming /\ StopRequest)
       => /\ ~ran'.ok
          /\ UNCHANGED <<isStreaming, streamInterval, timers, ticks, statusJobs>>
          /\ out' = <<>>]_vars

C3_Witness ==
  /\ ran = Ran("stop", FALSE)
  /\ ~isStreaming
  /\ streamInterval = 0

\* the status update of a start with period q: sent at once when the
\* provider summary is cached, else left waiting for the database
StartStatus(q) ==
  IF currentProviderInfo.type # ""
  THEN out' = <<StatusMsg(TRUE, q, currentProviderInfo, Receivers)>>
  ELSE CopiesIn(StatusJob("all", q), statusJobs') =
         CopiesIn(StatusJob("all", q), statusJobs) + 1

\* C4: for every interval q in [1000,10000], start(q) while Stopped makes
\* the stream Running, begins one tick at once, arms exactly one timer, of
\* period q, and issues a status update carrying q; while the stream runs,
\* only a stop or a configure replaces that timer.
C4_StartArmsTimerAtInterval ==
  [][/\ \A q \in StartIntervals :
          (~isStreaming /\ q >= 1000 /\ q <= 10000 /\ StartRequest(q))
            => /\ ran'.ok
               /\ isStreaming'
               /\ ticks' = ticks (+) SetToBag({NewTick})
               /\ streamInterval' # 0
               /\ timers' = [i \in TimerIds |->
                               IF i = streamInterval' THEN q ELSE 0]
               /\ StartStatus(q)
     /\ (isStreaming /\ ran'.op \notin {"stop", "configure"})
            => UNCHANGED <<isStreaming, streamInterval, timers>>]_vars

C4_Witness ==
  /\ ran = Ran("start", TRUE)
  /\ isStreaming
  /\ timers[streamInterval] = 10000
  /\ config.interval # 10000
  /\ CopiesIn(NewTick, ticks) >= 1

\* C5 as stated: once the stream is Stopped no event or error message is
\* broadcast until the next start.
C5_NoTickMessageWhileStopped ==
  ~isStreaming => \A i \in 1..Len(out) : out[i].type \notin TickMessages

\* C5 amended: once the stream is Stopped no new tick begins until the next
\* successful start; only ticks already in flight may still broadcast.
C5_NoNewTickWhileStopped ==
  [][(~isStreaming /\ ~isStreaming')
       => CopiesIn(NewTick, ticks') <= CopiesIn(NewTick, ticks)]_vars

C5_Witness ==
  /\ ~isStreaming
  /\ TickEnded
  /\ Len(out) = 1
  /\ out[1].type \in TickMessages

\* C6: a successful stop only cancels the timer: the ticks in flight are
\* left as they are; while the stream is Stopped, a tick whose backend call
\* returns an object still issues its persistence write, and a tick whose
\* persistence write returns still broadcasts its event.
C6_StopLeavesTickRunning ==
  [][/\ (isStreaming /\ StopRequest)
          => /\ ticks' = ticks
             /\ timers' = [i \in TimerIds |-> 0]
     /\ \A t \in BagToSet(ticks) :
          (~isStreaming /\ TickBackend(t, "object"))
            => \E u \in BagToSet(ticks') :
                 /\ u.pc = "persist"
                 /\ CopiesIn(u, ticks') = CopiesIn(u, ticks) + 1
     /\ \A t \in BagToSet(ticks), dbOk \in BOOLEAN :
          (~isStreaming /\ TickPersist(t, dbOk))
            => out' = <<EventMsg(currentProviderInfo, Receivers)>>]_vars

C6_Witness ==
  /\ ~isStreaming
  /\ ran.op = "tick.persist"
  /\ Len(out) = 1
  /\ out[1].type = "error-log"

\* C7: every tick that ends has broadcast exactly one message, an event or
\* an error.
C7_TickAlwaysReports ==
  [][InFlight' < InFlight
       => Len(out') = 1 /\ out'[1].type \in TickMessages]_vars

\* C8: when the insert of a tick fails, the tick still broadcasts its
\* event and no error message, and run state and timer are untouched.
C8_PersistFailureStillBroadcasts ==
  [][\A t \in BagToSet(ticks) :
       TickPersist(t, FALSE)
         => /\ out' = <<EventMsg(currentProviderInfo, Receivers)>>
            /\ UNCHANGED <<isStreaming, streamInterval, timers>>]_vars

C8_Witness ==
  /\ ran = RanTick("tick.persist", FALSE, "event")
  /\ isStreaming
  /\ timers[streamInterval] # 0
  /\ Len(out) = 1
  /\ out[1].type = "error-log"

\* C9: a tick that fails leaves run state and timer as they are, and if
\* the stream stays Running from some point on, timer-driven ticks begin
\* again and again.
C9_FailuresNeverStopTheTimer ==
  /\ [][(InFlight' < InFlight /\ ran'.fin = "error")
          => UNCHANGED <<isStreaming, streamInterval, timers>>]_vars
  /\ (<>[]isStreaming => []<>(ran.op = "timer"))

C9_Witness ==
  /\ ran.fin = "error"
  /\ isStreaming
  /\ timers[streamInterval] # 0

\* C10: POST /api/config with an interval below 1000 or above 10000 answers
\* 400 and changes nothing: config, run state, timer, ticks, stored
\* provider and app config, cached summary; it sends and schedules nothing.
C10_RejectedConfigureChangesNothing ==
  [][\A body \in ConfigBodies, a \in AiPayloads, b \in AppPayloads :
       (/\ body.interval # UNDEF
        /\ (body.interval < 1000 \/ body.interval > 10000)
        /\ ConfigRequest(body.interval, body.template, a, b))
         => /\ ran' = RanHttp("configure", "400")
            /\ UNCHANGED <<config, isStreaming, streamInterval, timers, ticks,
                           statusJobs, cfgReq, providerRows, appConfig,
                           currentProviderInfo, currentVariationLimit>>
            /\ out' = <<>>]_vars

C10_Witness ==
  /\ ran = RanHttp("configure", "400")
  /\ isStreaming
  /\ config = [interval |-> DEFAULT_INTERVAL, template |-> DEFAULT_TEMPLATE]

\* a valid interval of a configure request while the stream is Running
ValidRestart(body) ==
  /\ isStreaming
  /\ body.interval # UNDEF
  /\ body.interval >= 1000 /\ body.interval <= 10000

\* C11: configure with a valid interval X while Running leaves the stream
\* Running with config.interval = X and exactly one armed timer, of period
\* X: the old timer is cancelled and never fires again.
C11_ConfigureRearmsTimer ==
  [][\A body \in ConfigBodies, a \in AiPayloads, b \in AppPayloads :
       (ValidRestart(body) /\ ConfigRequest(body.interval, body.template, a, b))
         => /\ isStreaming'
            /\ config'.interval = body.interval
            /\ streamInterval' # 0
            /\ timers' = [i \in TimerIds |->
                            IF i = streamInterval' THEN body.interval ELSE 0]]_vars

\* the stream was started at 10000 ms and restarted at 1000 ms by a
\* configure, which sent the status updates of the stop and of the start
C11_Witness ==
  /\ ran = Ran("configure", TRUE)
  /\ isStreaming
  /\ config.interval = 1000
  /\ timers[streamInterval] = 1000
  /\ Len(out) = 2
  /\ out[2].interval = 1000

\* C12: the restart a configure makes while Running starts no generation
\* attempt of its own: the ticks in flight are those there were before.
C12_RestartStartsNoTick ==
  [][\A body \in ConfigBodies, a \in AiPayloads, b \in AppPayloads :
       (ValidRestart(body) /\ ConfigRequest(body.interval, body.template, a, b))
         => ticks' = ticks]_vars

\* C13: a configure request that fails (here: its provider settings are
\* refused) has changed neither config nor the run state nor the timer, and
\* has sent or scheduled no status message.
C13_FailedConfigureChangesNothing ==
  [][\A body \in ConfigBodies, a \in AiPayloads, b \in AppPayloads :
       (ConfigRequest(body.interval, body.template, a, b) /\ ran'.fin = "500")
         => /\ UNCHANGED <<config, isStreaming, streamInterval, timers, ticks>>
            /\ out' = <<>>
            /\ statusJobs' = statusJobs]_vars

(***************************************************************************)
(* Provider resolution, under ResolveSpec.                                 *)
(***************************************************************************)
\* the step in which the resolveActiveAIProviderConfig call of tick t
\* returns its provider (line 240 or line 187)
Returned(t) == TickUpsert(t, TRUE) \/ TickGetLimit(t, TRUE)

\* provider T is marked active in the stored settings
ActiveRow(T) == providerRows[T].present /\ providerRows[T].isActive
NoActiveRow == \A T \in ProviderTypes : ~ActiveRow(T)
\* the app config names T and a provider entry T is stored
PointerRow(T) == appConfig.ACTIVE_PROVIDER = T /\ providerRows[T].present

\* line 226: gemini needs a key, and neither the entry nor the environment
\* has one; line 230: no apiUrl is stored and the type has no default one
NoCredential(T) ==
  T = "gemini" /\ providerRows[T].apiKey = "" /\ env.GEMINI_API_KEY = ""
NoEndpoint(T) == providerRows[T].apiUrl = "" /\ T \notin {"gemini", "ollama"}

NoProviderText == "No AI provider configured. Please configure one in Settings."

\* C14: a resolveActiveAIProviderConfig call that returns after an earlier
\* one returned (no configure in between) returns the same provider: type,
\* model, endpoint and credential.
C14_ResolutionIsDeterministic ==
  [][\A t \in BagToSet(ticks) :
       (lastResolved # NoResolved /\ Returned(t))
         => lastResolved' = lastResolved]_vars

\* C15 as stated: with a provider T marked active, the resolution goes on
\* with provider T whatever the app config and the environment hold.
C15_ActiveProviderAlwaysResolves ==
  [][\A t \in BagToSet(ticks), T \in ProviderTypes :
       (ActiveRow(T) /\ TickSettings(t, TRUE))
         => \E u \in BagToSet(ticks') : u.pc = "upsert" /\ u.provider.type = T]_vars

\* C15 amended: with a provider T marked active, the resolution chooses T
\* whatever the app config holds and never consults step 2 or the fallback:
\* it goes on with T and the stored model, or it fails because T has no
\* credential or no endpoint.
C15_ActiveProviderIsChosen ==
  [][\A t \in BagToSet(ticks), T \in ProviderTypes :
       (ActiveRow(T) /\ TickSettings(t, TRUE))
         => IF NoCredential(T) \/ NoEndpoint(T)
            THEN /\ ran'.fin = "error"
                 /\ out'[1].message # NoProviderText
            ELSE \E u \in BagToSet(ticks') :
                   /\ u.pc = "upsert"
                   /\ u.provider.type = T
                   /\ u.provider.modelName = providerRows[T].modelName]_vars

\* gemini is active and chosen while the app config names ollama, which has
\* an entry too
C15_Witness ==
  /\ ran = RanTick("tick.settings", TRUE, "")
  /\ appConfig.ACTIVE_PROVIDER = "ollama"
  /\ providerRows["ollama"].present
  /\ \E u \in BagToSet(ticks) : u.pc = "upsert" /\ u.provider.type = "gemini"

\* C16: with no provider marked active, the resolution chooses the
\* ACTIVE_PROVIDER of the app config exactly when a provider entry of that
\* name is stored; otherwise that value is ignored and the fallback step
\* decides: the fallback provider with the environment key, or the "no
\* provider configured" error.
C16_AppConfigProviderNeedsEntry ==
  [][\A t \in BagToSet(ticks) :
       (NoActiveRow /\ TickAppConfig(t, TRUE))
         => IF \E T \in ProviderTypes : PointerRow(T)
            THEN \/ \E u \in BagToSet(ticks') :
                      /\ u.pc = "upsert"
                      /\ u.provider.type = appConfig.ACTIVE_PROVIDER
                 \/ /\ ran'.fin = "error"
                    /\ out'[1].message # NoProviderText
            ELSE \/ \E u \in BagToSet(ticks') :
                      /\ u.pc = "upsertFallback"
                      /\ u.provider.apiKey = env.GEMINI_API_KEY
                      /\ env.GEMINI_API_KEY # ""
                 \/ /\ ran'.fin = "error"
                    /\ out'[1].message = NoProviderText
                    /\ env.GEMINI_API_KEY = ""]_vars

\* the app config names ollama, no ollama entry is stored, and the
\* resolution went to the fallback
C16_Witness ==
  /\ ran = RanTick("tick.appcfg", TRUE, "")
  /\ appConfig.ACTIVE_PROVIDER = "ollama"
  /\ ~providerRows["ollama"].present
  /\ \E u \in BagToSet(ticks) : u.pc = "upsertFallback"

\* C17: when neither an active row nor the app config selects a provider,
\* the resolution takes the fallback (gemini, default model, default
\* endpoint, environment key) exactly when GEMINI_API_KEY is set, and
\* returns it; otherwise it fails with "no provider configured" and leaves
\* the cached summary and the app config as they are.
C17_FallbackNeedsEnvironmentKey ==
  [][\A t \in BagToSet(ticks) :
       /\ (NoActiveRow /\ (\A T \in ProviderTypes : ~PointerRow(T))
             /\ TickAppConfig(t, TRUE))
            => IF env.GEMINI_API_KEY # ""
               THEN \E u \in BagToSet(ticks') :
                      /\ u.pc = "upsertFallback"
                      /\ u.provider = [type |-> "gemini",
                                       modelName |-> FALLBACK_GEMINI_MODEL,
                                       apiUrl |-> FALLBACK_GEMINI_API_URL,
                                       apiKey |-> env.GEMINI_API_KEY]
               ELSE /\ ran'.fin = "error"
                    /\ out'[1].message = NoProviderText
                    /\ UNCHANGED <<currentProviderInfo, appConfig, lastResolved, lastConfigured>>
       /\ TickGetLimit(t, TRUE) => lastResolved' = t.provider]_vars

\* nothing is configured and the environment has no key: the tick ended
\* with the error
C17_Witness ==
  /\ ran = RanTick("tick.appcfg", FALSE, "error")
  /\ env.GEMINI_API_KEY = ""
  /\ Len(out) = 1
  /\ out[1].message = NoProviderText
  /\ currentProviderInfo = NoInfo

\* C18: when the chosen provider needs a credential that neither its entry
\* nor the environment holds, or has no endpoint, the resolution fails and
\* changes neither the cached summary nor the stored ACTIVE_PROVIDER.
C18_MissingCredentialOrEndpointFails ==
  [][\A t \in BagToSet(ticks), T \in ProviderTypes :
       ( /\ \/ ActiveRow(T) /\ TickSettings(t, TRUE)
            \/ NoActiveRow /\ PointerRow(T) /\ TickAppConfig(t, TRUE)
         /\ NoCredential(T) \/ NoEndpoint(T) )
         => /\ ran'.fin = "error"
            /\ Len(out') = 1 /\ out'[1].type = "error"
            /\ UNCHANGED <<currentProviderInfo, appConfig, lastResolved, lastConfigured>>]_vars

\* gemini was chosen and has no key anywhere
C18_Witness ==
  /\ ran.fin = "error"
  /\ Len(out) = 1
  /\ out[1].message =
       "Gemini API key is not configured. Please update the provider settings."
  /\ env.GEMINI_API_KEY = ""
  /\ lastResolved = NoResolved

C20_ResolutionAdoptsStoredLimit ==
  [][\A t \in BagToSet(ticks) :
       (Returned(t) /\ appConfig.ERROR_VARIATION_LIMIT # Undefined)
         => currentVariationLimit' =
              clampVariationLimit(appConfig.ERROR_VARIATION_LIMIT)]_vars


\* the last segment was a broadcast: a tick's message, or the status update
\* of a start or a stop
BroadcastSegment == ran.op \in {"start", "stop", "tick.settings", "tick.appcfg",
                                "tick.upsertFallback", "tick.getLimit",
                                "tick.upsert", "tick.backend", "tick.persist"}

\* C21: when the send to one subscriber fails during a broadcast, the
\* message has still been handed to every other open subscriber of the set,
\* and the failure removes that subscriber only.
C21_SendFailureIsIsolated ==
  [][\A c \in HubClients :
       (BroadcastSegment /\ SendFails(c))
         => /\ \A i \in 1..Len(out) :
                 \A d \in connectedClients \ {c} :
                   readyState[d] = OPEN => d \in out[i].to
            /\ connectedClients' = connectedClients \ {c}
            /\ \A d \in HubClients \ {c} : readyState'[d] = readyState[d]]_vars

C21_Witness ==
  /\ ran = RanTick("send.error", FALSE, "error-log")
  /\ connectedClients = {"ws2"}
  /\ readyState["ws2"] = OPEN
  /\ readyState["ws1"] = 0
  /\ isStreaming

\* C22: after a broadcast completes, the subscriber set contains no
\* connection that the broadcast found not open.
C22_BroadcastPrunesDeadSubscribers ==
  (BroadcastSegment /\ Len(out) > 0)
    => \A c \in connectedClients : readyState[c] = OPEN

\* socket c is registered and its status snapshot has not been sent yet
SnapshotPending(c) ==
  c \in connectedClients /\ \E j \in BagToSet(statusJobs) : j.target = c
\* the last segment sent a status message to socket c
GotStatus(c) ==
  \E i \in 1..Len(out) : out[i].type = "status" /\ c \in out[i].to

\* C23: a status message sent to a newly registered subscriber carries the
\* run state, the interval and the provider summary as they are when it is
\* sent (isStreaming = false after a stop); with a cached summary it is sent
\* in the connection handler itself, and otherwise every subscriber that
\* stays open eventually receives it.
C23_NewSubscriberGetsStatus ==
  /\ [][\A c \in Clients :
          (Connect(c) \/ SnapshotResumes(c))
            => /\ \A i \in 1..Len(out') :
                    out'[i] = StatusMsg(isStreaming', config'.interval,
                                        currentProviderInfo',
                                        {d \in {c} : readyState'[d] = OPEN})
               /\ (Connect(c) /\ currentProviderInfo.type # "") => GotStatus(c)']_vars
  /\ \A c \in Clients :
       SnapshotPending(c) ~> (GotStatus(c) \/ readyState[c] # OPEN)

\* a segment of the POST /api/generate-error request t
OnceStep(t) ==
  /\ t.caller = "once"
  /\ \/ \E dbOk \in BOOLEAN :
          \/ TickSettings(t, dbOk) \/ TickAppConfig(t, dbOk)
          \/ TickUpsertFallback(t, dbOk) \/ TickGetLimit(t, dbOk)
          \/ TickUpsert(t, dbOk) \/ TickPersist(t, dbOk)
     \/ \E o \in BackendOutcomes : TickBackend(t, o)

\* C24: POST /api/generate-error, in every segment from the request to its
\* answer and whether it succeeds or fails, leaves run state, timer handle,
\* armed timers and interval as they are, sends nothing to the subscribers
\* and schedules no status update.
C24_GenerateOnceLeavesStreamAlone ==
  [][(GenerateOnceRequest \/ \E t \in BagToSet(ticks) : OnceStep(t))
       => /\ UNCHANGED <<isStreaming, streamInterval, timers, config>>
          /\ out' = <<>>
          /\ statusJobs' = statusJobs]_vars

C24_Witness ==
  /\ ran = RanTick("tick.backend", FALSE, "500")
  /\ isStreaming
  /\ timers[streamInterval] # 0
  /\ Receivers # {}

\* C25 as stated: when the insert fails, insertErrorLog returns normally to
\* its caller.
C25_WriteNeverThrows ==
  [][\A t \in BagToSet(ticks) : TickPersist(t, FALSE) => ran'.ok]_vars

\* C25 amended: when the insert fails, insertErrorLog throws the error
\* again and its caller catches it: the operation ends as it does after a
\* successful insert, a tick by broadcasting its event and a single
\* generation by answering 200, and never with an error message or a 500.
C25_CallersCatchFailedWrite ==
  [][\A t \in BagToSet(ticks) :
       TickPersist(t, FALSE)
         => /\ ~ran'.ok
            /\ ticks' = Del(ticks, t)
            /\ IF t.caller = "once"
               THEN out' = <<>> /\ ran'.fin = "200"
               ELSE /\ out' = <<EventMsg(currentProviderInfo, Receivers)>>
                    /\ ran'.fin = "event"]_vars

C25_Witness ==
  /\ ran = RanTick("tick.persist", FALSE, "200")
  /\ isStreaming

ActiveRows == {t \in ProviderTypes : ActiveRow(t)}
\* the provider types among the entries of an aiProvider payload
EntryTypes(payload) == {payload.providers[i][1] : i \in 1..Len(payload.providers)}
\* every entry of the payload has a modelName
ValidEntries(payload) ==
  \A i \in 1..Len(payload.providers) : payload.providers[i][2].modelName # ""

\* C26: in every reachable state at most one stored provider is active; a
\* save that commits leaves the payload's activeProvider as the only active
\* provider (none when it is not among the saved providers), and a save
\* that fails before its COMMIT leaves the table as it was.
C26_AtMostOneActiveProvider ==
  /\ [](Cardinality(ActiveRows) <= 1)
  /\ [][\A o \in {"ok", "fail", "readfail"} :
          (cfgReq.ai.given /\ ConfigSettings(o))
            => IF o # "fail" /\ ValidEntries(cfgReq.ai)
               THEN \A t \in ProviderTypes :
                      (providerRows'[t].present /\ providerRows'[t].isActive)
                        <=> (t = cfgReq.ai.activeProvider /\ t \in EntryTypes(cfgReq.ai))
               ELSE providerRows' = providerRows]_vars

C26_Witness ==
  /\ ran = Ran("configure.settings", TRUE)
  /\ ActiveRows = {"custom"}
  /\ providerRows["gemini"].present
  /\ providerRows["ollama"].present

\* C29: after a POST /api/config that stored provider settings with
\* provider P active and answered 200, the cached summary is P when the
\* request ends, and every status message sent from then on carries P until
\* the stored settings change again.
C29_StatusCarriesConfiguredProvider ==
  lastConfigured # NoInfo
    => /\ ran = RanHttp("configure.appcfg", "200")
            => currentProviderInfo = lastConfigured
       /\ \A i \in 1..Len(out) :
            out[i].type = "status" => out[i].provider = lastConfigured

\* a decimal integer as a whole: blanks, an optional sign, digits, blanks
IsInteger(raw) ==
  LET s == SkipSpaceEnd(SkipSpace(raw))
      body == IF s # <<>> /\ Head(s) \in {"-", "+"} THEN Tail(s) ELSE s
  IN body # <<>> /\ AllDigits(body)
IntegerOf(raw) == ParseInt(raw).val
\* an input that is no decimal numeral, with or without a fraction
NonNumeric(raw) ==
  LET s == SkipSpaceEnd(SkipSpace(raw))
      body == IF s # <<>> /\ Head(s) \in {"-", "+"} THEN Tail(s) ELSE s
      digits == {i \in 1..Len(body) : IsDigit(body[i])}
      dots == {i \in 1..Len(body) : body[i] = "."}
  IN digits = {} \/ Cardinality(dots) > 1 \/ digits \cup dots # 1..Len(body)

\* C27: for every input the server's clampVariationLimit gives an integer in
\* [1,10]: 1 for an integer below 1, 10 for an integer above 10, the integer
\* itself within the range, the default 10 for a non-numeric input; and the
\* settings page's clampVariationLimit gives the same on these inputs.
C27_ClampNormalises ==
  [][(cfgReq.app.given /\ ConfigAppConfig(TRUE))
       => LET raw == cfgReq.app.ERROR_VARIATION_LIMIT
              limit == currentVariationLimit'
          IN /\ limit \in 1..10
             /\ IsInteger(raw) =>
                  /\ limit = IF IntegerOf(raw) < 1 THEN 1
                             ELSE IF IntegerOf(raw) > 10 THEN 10
                             ELSE IntegerOf(raw)
                  /\ SettingsClampVariationLimit(raw) = limit
             /\ NonNumeric(raw) =>
                  /\ limit = DEFAULT_VARIATION_LIMIT
                  /\ SettingsClampVariationLimit(raw) = limit]_vars

\* the segments of POST /api/config
ConfigureOps == {"configure", "configure.settings", "configure.appcfg",
                 "configure.ensure"}

\* C28: interval, prompt template and variation limit change only in a
\* segment of POST /api/config: start, stop, ticks, provider resolution,
\* status snapshots and connections leave the three as they are.
C28_OnlyConfigureMutatesStreamConfig ==
  [][ran'.op \notin ConfigureOps
       => UNCHANGED <<config, currentVariationLimit>>]_vars

\* C30: while the stream is running, the period of the armed timer is an
\* integer between 1000 and 10000 ms, whatever interval the start request
\* or the configure request carried.
C30_ArmedPeriodInRange ==
  (isStreaming /\ streamInterval # 0)
    => timers[streamInterval] \in MIN_INTERVAL..MAX_INTERVAL

\* the last segment sent an event message
EventSent == \E i \in 1..Len(out) : out[i].type = "error-log"

\* C31: the stages of a tick come in the order generate, persist,
\* broadcast: an event message is sent only by the segment that follows the
\* return (or the failure) of a tick's insert and ends that tick, and a
\* tick comes to wait for its insert only in the segment in which its
\* backend payload was parsed.
C31_StagesInOrder ==
  [][/\ EventSent'
          => /\ ran'.op = "tick.persist"
             /\ \E t \in BagToSet(ticks) :
                  t.pc = "persist" /\ ticks' = Del(ticks, t)
     /\ \A u \in BagToSet(ticks') :
          (u.pc = "persist" /\ CopiesIn(u, ticks') > CopiesIn(u, ticks))
            => /\ ran' = RanTick("tick.backend", TRUE, "")
               /\ \E t \in BagToSet(ticks) :
                    /\ t.pc = "backend"
                    /\ ticks' = Upd(ticks, t, u)]_vars

C31_Witness ==
  /\ ran = RanTick("tick.persist", TRUE, "event")
  /\ EventSent
  /\ isStreaming

\* the segments of a tick before its insert is issued: provider resolution
\* (lines 154-240) and the backend call with the parsing of its payload
BeforePersist == {"tick.settings", "tick.appcfg", "tick.upsertFallback",
                  "tick.getLimit", "tick.upsert", "tick.backend"}

\* C32: a timer-driven tick that fails in provider resolution, in the
\* backend call or in the parsing of the payload ends there: it never waited
\* for an insert, no tick is left waiting for one in its place, and the
\* segment sends exactly one message, an error message.
C32_FailedTickPersistsNothing ==
  [][(ran'.op \in BeforePersist /\ ~ran'.ok /\ ran'.fin # "500")
       => /\ \E t \in BagToSet(ticks) :
               /\ t.caller = "stream"
               /\ t.pc # "persist"
               /\ ticks' = Del(ticks, t)
          /\ Len(out') = 1
          /\ out'[1].type = "error"]_vars

C32_Witness ==
  /\ ran = RanTick("tick.backend", FALSE, "error")
  /\ out = <<ErrorMsg("Invalid JSON generated by Gemini", currentProviderInfo,
                      Receivers)>>
  /\ Receivers # {}

\* the interval timers that are armed
Armed == {i \in TimerIds : timers[i] # 0}

\* C33: run state and timers agree: while the stream is Running exactly one
\* interval timer is armed, the one whose handle the controller holds, and
\* while it is Stopped no timer is armed and no handle is held; a timer of
\* an earlier start never survives a stop or a restart by configure.
C33_TimerMatchesRunState ==
  /\ isStreaming => (streamInterval # 0 /\ Armed = {streamInterval})
  /\ ~isStreaming => (streamInterval = 0 /\ Armed = {})

\* stopped after a start and a restart by configure
C33_Witness ==
  /\ ran = Ran("stop", TRUE)
  /\ config.interval = 1000
  /\ ~isStreaming
  /\ Armed = {}
  /\ InFlight = 2

\* C34: every status message sent while the stream is Running carries the
\* period of the armed timer as its interval, also after a start with an
\* interval other than the stored one.
C34_StatusCarriesArmedPeriod ==
  [][\A i \in 1..Len(out') :
       (out'[i].type = "status" /\ isStreaming' /\ streamInterval' # 0)
         => out'[i].interval = timers'[streamInterval']]_vars

\* C35: the event message of a tick names the provider that tick resolved
\* and generated with, whatever other ticks and configure requests did to
\* the cached provider summary in between.
C35_EventNamesGeneratingProvider ==
  [][\A t \in BagToSet(ticks), dbOk \in BOOLEAN :
       (t.caller = "stream" /\ TickPersist(t, dbOk))
         => /\ Len(out') = 1
            /\ out'[1].provider = InfoOf(t.provider)]_vars

\* C36: a subscriber gets its status snapshot before any tick result: while
\* the snapshot of a registered socket is still to be sent, no event or
\* error message of a tick is sent to that socket.
C36_StatusBeforeTickMessages ==
  [][\A c \in Clients :
       SnapshotPending(c)
         => \A i \in 1..Len(out') :
              out'[i].type \in TickMessages => c \notin out'[i].to]_vars

\* C37: no segment of POST /api/config changes the run state, whether the
\* request ends with 200, 400 or 500; while the stream is Stopped such a
\* segment also arms no timer and starts no tick, even when it stores a new
\* interval.
C37_ConfigureKeepsRunState ==
  [][ran'.op \in ConfigureOps
       => /\ isStreaming' = isStreaming
          /\ ~isStreaming
               => /\ Armed' = {}
                  /\ streamInterval' = 0
                  /\ ticks' = ticks]_vars

\* a configure that stored a new interval while Stopped has answered 200
C37_Witness ==
  /\ ran = RanHttp("configure.appcfg", "200")
  /\ config.interval = 1000
  /\ ~isStreaming
  /\ Armed = {}
  /\ InFlight = 0

\* C38: after a saveAIProviderSettings call that succeeded, the stored
\* settings report the activeProvider of its payload as the active
\* provider, also when the payload holds no entry for it.
C38_SavedActiveProviderIsReported ==
  [][(cfgReq.ai.given /\ ConfigSettings("ok") /\ ran'.ok)
       => getAIProviderSettings(providerRows').activeProvider
            = cfgReq.ai.activeProvider]_vars

\* C39: a saveAIProviderSettings call that fails leaves the table
\* ai_provider_settings as it was: the provider that was active is still
\* active and no entry of the payload is stored.
C39_FailedSaveChangesNothing ==
  [][(cfgReq.ai.given /\ ran'.op = "configure.settings" /\ ~ran'.ok)
       => providerRows' = providerRows]_vars

\* the run state as a status message tells it
RunState == IF isStreaming THEN "on" ELSE "off"
\* no status snapshot or status broadcast is waiting for the database
StatusQuiet == statusJobs = EmptyBag

\* C40: status messages converge: every status message carries the run
\* state as it is when the message is sent, and whenever no status
\* snapshot or broadcast is pending, the last status message sent to each
\* open registered socket told the run state the controller is in.
C40_StatusConverges ==
  /\ [][\A i \in 1..Len(out') :
          out'[i].type = "status" => out'[i].isStreaming = isStreaming']_vars
  /\ [](StatusQuiet
          => \A c \in connectedClients :
               readyState[c] = OPEN => lastStatus[c] = RunState)

\* after a stop, the status broadcast that waited for the database has
\* told the subscriber that the stream is off
C40_Witness ==
  /\ ran.op \in {"status.settings", "status.appcfg"}
  /\ StatusQuiet
  /\ ~isStreaming
  /\ InFlight > 0
  /\ connectedClients = {"ws1"}
  /\ readyState["ws1"] = OPEN
  /\ lastStatus["ws1"] = "off"
====
